---- MODULE Spec2Model ----
(***************************************************************************)
(* Sound Credit Union co-pilot backend: the goal store, the eligibility    *)
(* filter, the rules-based recommendation generator, the AI adapter, the   *)
(* recommendation orchestrator, the purchase impact analyzer, the refresh  *)
(* token rotation of the auth router and the account deletion.             *)
(*                                                                         *)
(* Conventions                                                             *)
(*  - money is an integer number of mills (1/1000 dollar), so that amounts *)
(*    below one cent exist and round(x, 2) is a real conversion;           *)
(*  - rates and ratios are integers in hundredths (7.99 % is 799, a DTI    *)
(*    of 0.28 is 28);                                                      *)
(*  - a nullable value is None (<<>>) or Some(v) (<<v>>);                  *)
(*  - a Python call yields Ok(value) or Raise(exception name);             *)
(*  - arithmetic is exact: binary floating point error is not modelled.    *)
(***************************************************************************)
EXTENDS Integers, Sequences, FiniteSets, TLC

VARIABLES
    financial_profile,  \* users.financial_profile, per user id
    products,           \* the products table, in row order
    goals,              \* the goals table, in row order
    next_goal_id,       \* the next fresh goals.id
    OPENAI_ENABLED,     \* module global of routers/recommendations.py
    response,           \* the last handler call: its request and its outcome
    abandoned_once,     \* history: ids of goals that have had status abandoned
    now,                \* datetime.utcnow(), in whole seconds
    users_is_active,    \* users.is_active, per user id
    refresh_tokens,     \* the refresh_tokens table, in row order
    analytics_events,   \* the analytics_events table, in row order
    in_flight,          \* POST /auth/refresh requests between SELECT and COMMIT
    ai_call             \* the chat completion request of the OpenAI client

\* The state of the auth router, the users router and the OpenAI client.
session_vars ==
    <<now, users_is_active, refresh_tokens, analytics_events, in_flight, ai_call>>

vars == <<financial_profile, products, goals, next_goal_id, OPENAI_ENABLED,
          response, abandoned_once, session_vars>>

-----------------------------------------------------------------------------
(* Bounds of the model *)

NumUsers == 2       \* registered users
MaxGoals == 2       \* goal rows ever created
MaxSeqLen == 6      \* longest list of goals or drafts handed to a pure function
MaxCatalog == 2     \* rows of a products table drawn for the eligibility filter
MaxImpactGoals == 2 \* rows of a goals table drawn for the impact analyzer
MaxRequests == 2    \* POST /auth/refresh requests in progress at once
MaxSeconds == 2     \* seconds the clock advances one by one
MaxRaceSeconds == 3 \* the same, while two refresh requests overlap
MaxWeeks == 1       \* refresh token lifetimes the clock advances at a stride
MaxTokens == 3      \* rows of the refresh_tokens table
MaxEvents == 1      \* rows of the analytics_events table
MaxAiRequests == 2  \* recommendation requests that reach the OpenAI client

-----------------------------------------------------------------------------
(* Values *)

None == <<>>
Some(v) == <<v>>
Val(x) == x[1]

\* Python truthiness of an optional number: `if x:` is false for None and 0.
Truthy(x) == x # None /\ Val(x) # 0

Dollars(n) == n * 1000

Ok(v) == [raised |-> FALSE, error |-> "", value |-> v]
Raise(e) == [raised |-> TRUE, error |-> e, value |-> <<>>]

Max(a, b) == IF a >= b THEN a ELSE b

Take(s, n) == SubSeq(s, 1, IF Len(s) < n THEN Len(s) ELSE n)

Range(s) == {s[i] : i \in DOMAIN s}

-----------------------------------------------------------------------------
(* Eligibility filter: routers/recommendations.py get_eligible_products *)

\* Variant without the is_active filter.
QualifiesIgnoringActive(profile, p) ==
    /\ Truthy(profile.credit_score) =>
          (p.min_credit_score = None
             \/ Val(p.min_credit_score) <= Val(profile.credit_score))
    /\ Truthy(profile.annual_income) =>
          (p.min_income = None \/ Val(p.min_income) <= Val(profile.annual_income))
    /\ Truthy(profile.dti_ratio) =>
          (p.max_dti_ratio = None \/ Val(p.max_dti_ratio) >= Val(profile.dti_ratio))

\* The WHERE clause built for one product row.
Qualifies(profile, p) ==
    /\ p.is_active
    /\ Truthy(profile.credit_score) =>
          (p.min_credit_score = None
             \/ Val(p.min_credit_score) <= Val(profile.credit_score))
    /\ Truthy(profile.annual_income) =>
          (p.min_income = None \/ Val(p.min_income) <= Val(profile.annual_income))
    /\ Truthy(profile.dti_ratio) =>
          (p.max_dti_ratio = None \/ Val(p.max_dti_ratio) >= Val(profile.dti_ratio))

get_eligible_products(profile, catalog) ==
    SelectSeq(catalog, LAMBDA p : Qualifies(profile, p))

-----------------------------------------------------------------------------
(* Rules-based generator: generate_rules_based_recommendations *)

Draft(type, priority, product, goal_id, estimate, cashback) ==
    [type |-> type, priority |-> priority, product |-> product,
     impact_goal_id |-> goal_id, payment_estimate |-> estimate,
     cashback_amount |-> cashback]

\* Variant of Rule 1 that does not test the goal's status.
RECURSIVE Rule1IgnoringStatus(_, _)
Rule1IgnoringStatus(amount, gs) ==
    IF gs = <<>> THEN Ok(<<>>)
    ELSE LET goal == Head(gs)
             rest == Rule1IgnoringStatus(amount, Tail(gs))
         IN  IF goal.type = "spending_limit" /\ goal.current_spending # None
                /\ Val(goal.current_spending) + amount > goal.target_amount
             THEN Ok(<<Draft("alert", 1, None, Some(goal.id), FALSE, None)>>
                     \o rest.value)
             ELSE rest

\* Rule 1, the loop over the goals in the order given.
RECURSIVE Rule1(_, _)
Rule1(amount, gs) ==
    IF gs = <<>> THEN Ok(<<>>)
    ELSE LET goal == Head(gs) IN
         IF ~(goal.type = "spending_limit" /\ goal.status = Some("active"))
         THEN Rule1(amount, Tail(gs))
         ELSE IF goal.current_spending = None
         THEN Raise("TypeError")
         ELSE IF Val(goal.current_spending) + amount > goal.target_amount
         THEN IF goal.target_amount = 0
              THEN Raise("ZeroDivisionError")
              ELSE LET rest == Rule1(amount, Tail(gs)) IN
                   IF rest.raised THEN rest
                   ELSE Ok(<<Draft("alert", 1, None, Some(goal.id), FALSE, None)>>
                           \o rest.value)
         ELSE Rule1(amount, Tail(gs))

\* Variant of Rule 2 with both bounds inclusive.
Rule2Inclusive(amount) ==
    IF Dollars(50) <= amount /\ amount <= Dollars(500)
    THEN <<Draft("cashback", 3, None, None, FALSE, Some(amount * 2))>>
    ELSE <<>>

\* Rule 2; cashback_amount = amount * 0.02, kept in 1/100 mill.
Rule2(amount) ==
    IF Dollars(50) < amount /\ amount < Dollars(500)
    THEN <<Draft("cashback", 3, None, None, FALSE, Some(amount * 2))>>
    ELSE <<>>

ProductsOfType(eligible_products, t) ==
    SelectSeq(eligible_products, LAMBDA p : p.type = t)

\* Variant of Rule 3 with both bounds exclusive.
Rule3Exclusive(amount, eligible_products) ==
    LET credit_cards == SelectSeq(eligible_products,
                                  LAMBDA p : p.type = "credit_card") IN
    IF Dollars(500) < amount /\ amount < Dollars(5000) /\ credit_cards # <<>>
    THEN <<Draft("credit_card", 2, Some(credit_cards[1].id), None, FALSE, None)>>
    ELSE <<>>

\* Rule 3
Rule3(amount, eligible_products) ==
    LET credit_cards == ProductsOfType(eligible_products, "credit_card") IN
    IF Dollars(500) <= amount /\ amount <= Dollars(5000) /\ credit_cards # <<>>
    THEN <<Draft("credit_card", 2, Some(credit_cards[1].id), None, FALSE, None)>>
    ELSE <<>>

\* Variant of Rule 4 whose range starts at 5000 inclusive.
Rule4FromThreshold(amount, eligible_products) ==
    LET loans == ProductsOfType(eligible_products, "loan") IN
    IF amount >= Dollars(5000) /\ loans # <<>>
    THEN IF loans[1].base_rate = None THEN Raise("TypeError")
         ELSE IF Val(loans[1].base_rate) = 0 THEN Raise("ZeroDivisionError")
         ELSE Ok(<<Draft("loan", 2, Some(loans[1].id), None, TRUE, None)>>)
    ELSE Ok(<<>>)

\* Variant of Rule 4 that takes loans[0] without testing the list.
Rule4Unguarded(amount, eligible_products) ==
    LET loans == SelectSeq(eligible_products, LAMBDA p : p.type = "loan") IN
    IF amount > Dollars(5000)
    THEN IF loans = <<>> THEN Raise("IndexError")
         ELSE IF loans[1].base_rate = None THEN Raise("TypeError")
         ELSE IF Val(loans[1].base_rate) = 0 THEN Raise("ZeroDivisionError")
         ELSE Ok(<<Draft("loan", 2, Some(loans[1].id), None, TRUE, None)>>)
    ELSE Ok(<<>>)

\* Rule 4: the monthly payment divides by 1 - (1 + r)^-60 with
\* r = base_rate / 100 / 12, which is 0 for a zero rate; a null rate cannot
\* be divided at all.
Rule4(amount, eligible_products) ==
    LET loans == ProductsOfType(eligible_products, "loan") IN
    IF amount > Dollars(5000) /\ loans # <<>>
    THEN IF loans[1].base_rate = None THEN Raise("TypeError")
         ELSE IF Val(loans[1].base_rate) = 0 THEN Raise("ZeroDivisionError")
         ELSE Ok(<<Draft("loan", 2, Some(loans[1].id), None, TRUE, None)>>)
    ELSE Ok(<<>>)

\* Variant of the insertion that puts a draft before its equals.
RECURSIVE InsertBeforeEqual(_, _)
InsertBeforeEqual(sorted, d) ==
    IF sorted = <<>> THEN <<d>>
    ELSE LET last == sorted[Len(sorted)] IN
         IF last.priority < d.priority THEN Append(sorted, d)
         ELSE Append(InsertBeforeEqual(SubSeq(sorted, 1, Len(sorted) - 1), d),
                     last)

\* list.sort(key=priority): a stable insertion sort.
RECURSIVE InsertByPriority(_, _)
InsertByPriority(sorted, d) ==
    IF sorted = <<>> THEN <<d>>
    ELSE LET last == sorted[Len(sorted)] IN
         IF last.priority <= d.priority THEN Append(sorted, d)
         ELSE Append(InsertByPriority(SubSeq(sorted, 1, Len(sorted) - 1), d), last)

RECURSIVE SortPrefix(_, _)
SortPrefix(s, n) ==
    IF n = 0 THEN <<>> ELSE InsertByPriority(SortPrefix(s, n - 1), s[n])

SortByPriority(s) == SortPrefix(s, Len(s))

\* Variant whose slice keeps one draft more.
TruncateLoose(s) == Take(s, 6)

Truncate(s) == Take(s, 5)

generate_rules_based_recommendations(amount, gs, eligible_products) ==
    LET r1 == Rule1(amount, gs)
        r4 == Rule4(amount, eligible_products)
    IN  IF r1.raised THEN r1
        ELSE IF r4.raised THEN r4
        ELSE Ok(Truncate(SortByPriority(
                 r1.value \o Rule2(amount) \o Rule3(amount, eligible_products)
                          \o r4.value)))

-----------------------------------------------------------------------------
(* AI adapter: generate_ai_recommendations                                  *)
(*                                                                          *)
(* The external reply is [kind, doc]: kind "raise" (the call raised or      *)
(* timed out), "not_json" (json.loads fails) or "json". A parsed document   *)
(* is [shape, has_recommendations, recommendations]; shape "array" has no   *)
(* .get. A Python value is [t, items, n]: t "list" with its items, "null",  *)
(* "str" or "dict" of n characters or keys, "int" of value n.               *)

PyList(items) == [t |-> "list", items |-> items, n |-> Len(items)]
PyOther(t, n) == [t |-> t, items |-> <<>>, n |-> n]

\* `if ai_recs:`
PyTruthy(v) == IF v.t = "null" THEN FALSE ELSE v.n # 0

\* Every exception of the try block is caught and gives [].
generate_ai_recommendations(enabled, reply) ==
    IF ~enabled THEN Ok(PyList(<<>>))
    ELSE IF reply.kind = "raise" THEN Ok(PyList(<<>>))
    ELSE IF reply.kind = "not_json" THEN Ok(PyList(<<>>))
    ELSE IF reply.doc.shape # "object" THEN Ok(PyList(<<>>))
    ELSE IF reply.doc.has_recommendations THEN Ok(reply.doc.recommendations)
    ELSE Ok(PyList(<<>>))

-----------------------------------------------------------------------------
(* Orchestrator: get_recommendations                                        *)

RecommendationType == {"loan", "credit_card", "alert", "cashback"}

\* The first eligible product whose lower-cased name occurs in the draft's
\* product_name; product_name is Some(ids of the products it mentions).
RECURSIVE MatchProduct(_, _)
MatchProduct(eligible_products, mentioned) ==
    IF eligible_products = <<>> THEN None
    ELSE IF Head(eligible_products).id \in mentioned
    THEN Some(Head(eligible_products).id)
    ELSE MatchProduct(Tail(eligible_products), mentioned)

\* One pass of the conversion loop; i is enumerate's index.
ConvertDraft(i, ai_rec, eligible_products) ==
    IF ~ai_rec.is_dict THEN Raise("AttributeError")
    ELSE LET product == IF ai_rec.product_name # None
                           /\ Val(ai_rec.product_name) # {}
                        THEN MatchProduct(eligible_products,
                                          Val(ai_rec.product_name))
                        ELSE None
             type == IF ai_rec.type = None THEN "alert" ELSE Val(ai_rec.type)
             priority == IF ai_rec.priority = None THEN i + 1
                         ELSE Val(ai_rec.priority)
         IN  IF type \notin RecommendationType THEN Raise("ValueError")
             ELSE IF ~ai_rec.has_title \/ ~ai_rec.has_description
             THEN Raise("KeyError")
             ELSE Ok(Draft(type, priority, product, None, FALSE, None))

RECURSIVE ConvertFrom(_, _, _)
ConvertFrom(i, items, eligible_products) ==
    IF i >= Len(items) THEN Ok(<<>>)
    ELSE LET one == ConvertDraft(i, items[i + 1], eligible_products) IN
         IF one.raised THEN one
         ELSE LET rest == ConvertFrom(i + 1, items, eligible_products) IN
              IF rest.raised THEN rest ELSE Ok(<<one.value>> \o rest.value)

\* `for i, ai_rec in enumerate(ai_recs)`: an int is not iterable, the
\* elements of a str or of a dict are strings.
ConvertAll(ai_recs, eligible_products) ==
    IF ai_recs.t = "int" THEN Raise("TypeError")
    ELSE IF ai_recs.t \in {"str", "dict"} THEN Raise("AttributeError")
    ELSE ConvertFrom(0, ai_recs.items, eligible_products)

Outcome(status, error, body, rules_ran, ai_recs) ==
    [status |-> status, error |-> error, body |-> body,
     rules_ran |-> rules_ran, ai_recs |-> ai_recs]

RulesFallback(amount, gs, eligible_products, ai_recs) ==
    LET rules == generate_rules_based_recommendations(amount, gs,
                                                      eligible_products) IN
    IF rules.raised THEN Outcome(500, rules.error, <<>>, TRUE, ai_recs)
    ELSE Outcome(200, "", rules.value, TRUE, ai_recs)

\* Variant that appends the rules drafts to the converted AI drafts.
GetRecommendationsMerged(enabled, amount, reply, gs, eligible_products) ==
    LET ai == generate_ai_recommendations(enabled, reply)
        rules == generate_rules_based_recommendations(amount, gs,
                                                      eligible_products)
    IN  IF enabled /\ ~ai.raised /\ PyTruthy(ai.value)
        THEN LET conv == ConvertAll(ai.value, eligible_products) IN
             IF conv.raised THEN Outcome(500, conv.error, <<>>, FALSE, ai.value)
             ELSE IF rules.raised
             THEN Outcome(500, rules.error, <<>>, TRUE, ai.value)
             ELSE Outcome(200, "", Truncate(conv.value \o rules.value), TRUE,
                          ai.value)
        ELSE RulesFallback(amount, gs, eligible_products, PyList(<<>>))

\* The body of get_recommendations after the two queries.
GetRecommendations(enabled, amount, reply, gs, eligible_products) ==
    IF enabled
    THEN LET ai == generate_ai_recommendations(enabled, reply) IN
         IF ai.raised THEN Outcome(500, ai.error, <<>>, FALSE, PyList(<<>>))
         ELSE IF PyTruthy(ai.value)
         THEN LET conv == ConvertAll(ai.value, eligible_products) IN
              IF conv.raised
              THEN Outcome(500, conv.error, <<>>, FALSE, ai.value)
              ELSE Outcome(200, "", Truncate(conv.value), FALSE, ai.value)
         ELSE RulesFallback(amount, gs, eligible_products, ai.value)
    ELSE RulesFallback(amount, gs, eligible_products, PyList(<<>>))

-----------------------------------------------------------------------------
(* Goal store: routers/goals.py                                             *)

Users == 1..NumUsers

GoalType == {"savings", "spending_limit", "debt_payoff"}
GoalStatus == {"active", "completed", "paused", "abandoned"}

\* A field of a GoalUpdate body: Unset (left out of the request) or
\* SetTo(v) with v the nullable value sent.
Unset == <<>>
SetTo(v) == <<v>>

Goal(id, user, type, target, current_amount, priority) ==
    [id |-> id, user_id |-> user, type |-> type, target_amount |-> target,
     current_amount |-> current_amount, current_spending |-> Some(0),
     status |-> Some("active"), priority |-> priority, completed_at |-> None]

\* settings.REFRESH_TOKEN_EXPIRE_DAYS, and timedelta(days=...) in seconds.
REFRESH_TOKEN_EXPIRE_DAYS == 7
SecondsPerDay == 86400
RefreshLifetime == REFRESH_TOKEN_EXPIRE_DAYS * SecondsPerDay

\* Time passes between requests: by a second, or by the lifetime of a
\* refresh token.
SecondPasses(limit) ==
    /\ (now % RefreshLifetime) < limit
    /\ now' = now + 1
    /\ UNCHANGED <<financial_profile, products, goals, next_goal_id,
                   OPENAI_ENABLED, response, abandoned_once, users_is_active,
                   refresh_tokens, analytics_events, in_flight, ai_call>>

TickSecond == SecondPasses(MaxSeconds)

TickLifetime ==
    /\ now < MaxWeeks * RefreshLifetime
    /\ now' = now + RefreshLifetime
    /\ UNCHANGED <<financial_profile, products, goals, next_goal_id,
                   OPENAI_ENABLED, response, abandoned_once, users_is_active,
                   refresh_tokens, analytics_events, in_flight, ai_call>>

\* A request slot that holds no request.
Idle == [pc |-> "idle"]

\* POST /auth/refresh requests that may be in progress at once.
Requests == 1..MaxRequests

\* The database after scripts/init_db.py: every user active, no refresh
\* token, no analytics event, and no request in progress.
SeededSessions ==
    /\ now = 1
    /\ users_is_active = [u \in Users |-> TRUE]
    /\ refresh_tokens = <<>>
    /\ analytics_events = <<>>
    /\ in_flight = [r \in Requests |-> Idle]
    /\ ai_call = Idle

\* Variant of the lookup without the owner filter.
GoalIndexAnyOwner(goal_id, user) ==
    {i \in DOMAIN goals : goals[i].id = goal_id}

\* select(Goal).where(Goal.id == goal_id, Goal.user_id == current_user.id)
GoalIndex(goal_id, user) ==
    {i \in DOMAIN goals : goals[i].id = goal_id /\ goals[i].user_id = user}

\* Variant without the status filter.
AllGoalsOf(table, user) == SelectSeq(table, LAMBDA g : g.user_id = user)

\* select(Goal).where(user_id == current_user.id, status == ACTIVE)
ActiveGoalsOf(table, user) ==
    SelectSeq(table, LAMBDA g : g.user_id = user /\ g.status = Some("active"))

\* round(x, 2) of a value in mills, to a multiple of 10 mills (half to even
\* on the decimal value).
Round2(m) ==
    LET q == m \div 10
        r == m % 10
    IN  IF r < 5 THEN q * 10
        ELSE IF r > 5 THEN (q + 1) * 10
        ELSE IF q % 2 = 0 THEN q * 10 ELSE (q + 1) * 10

\* round(num / den, 0) for num >= 0, den > 0 (half to even).
RoundDiv(num, den) ==
    LET q == num \div den
        r2 == 2 * (num % den)
    IN  IF r2 < den THEN q
        ELSE IF r2 > den THEN q + 1
        ELSE IF q % 2 = 0 THEN q ELSE q + 1

\* round(amount / target * 100, 2) in hundredths of a percent, for amount >= 0
\* and target > 0; the product amount * 10000 is taken in two steps to stay
\* within 32 bits.
Percent2(amount, target) ==
    LET whole == amount \div target
        x == (amount % target) * 100
        q1 == x \div target
        r1 == x % target
    IN  whole * 10000 + q1 * 100 + RoundDiv(r1 * 100, target)

\* A quotient that is not rounded: num / den with den > 0.
Ratio(num, den) == [num |-> num, den |-> den]

\* min((x / target) * 100, 100) for target > 0.
MinPercent(x, target) ==
    IF x * 100 <= 100 * target THEN Ratio(x * 100, target) ELSE Ratio(100, 1)

\* Variant without the cap at 100.
calculate_goal_metrics_uncapped(goal) ==
    IF goal.target_amount > 0
    THEN IF goal.type = "spending_limit"
         THEN IF goal.current_spending = None THEN Raise("TypeError")
              ELSE Ok(Ratio(Val(goal.current_spending) * 100, goal.target_amount))
         ELSE IF goal.current_amount = None THEN Raise("TypeError")
              ELSE Ok(Ratio(Val(goal.current_amount) * 100, goal.target_amount))
    ELSE Ok(Ratio(0, 1))

\* calculate_goal_metrics: progress_percentage.
calculate_goal_metrics(goal) ==
    IF goal.target_amount > 0
    THEN IF goal.type = "spending_limit"
         THEN IF goal.current_spending = None THEN Raise("TypeError")
              ELSE Ok(MinPercent(Val(goal.current_spending), goal.target_amount))
         ELSE IF goal.current_amount = None THEN Raise("TypeError")
              ELSE Ok(MinPercent(Val(goal.current_amount), goal.target_amount))
    ELSE Ok(Ratio(0, 1))

\* setattr(goal, field, value) for every field of update_data.
ApplyUpdate(goal, update_data) ==
    [goal EXCEPT
        !.target_amount = IF update_data.target_amount \in {Unset, SetTo(None)}
                          THEN @
                          ELSE Val(update_data.target_amount[1]),
        !.current_amount = IF update_data.current_amount = Unset THEN @
                           ELSE update_data.current_amount[1],
        !.current_spending = IF update_data.current_spending = Unset THEN @
                             ELSE update_data.current_spending[1],
        !.status = IF update_data.status = Unset THEN @
                   ELSE update_data.status[1],
        !.priority = IF update_data.priority = Unset THEN @
                     ELSE update_data.priority[1]]

\* Variant that stamps every update of a completed goal.
StampCompletedAlways(goal) ==
    IF goal.status = Some("completed")
    THEN [goal EXCEPT !.completed_at = Some(now)]
    ELSE goal

\* `if goal.status == COMPLETED and not goal.completed_at`
StampCompleted(goal) ==
    IF goal.status = Some("completed") /\ goal.completed_at = None
    THEN [goal EXCEPT !.completed_at = Some(now)]
    ELSE goal

\* calculate_goal_metrics and GoalResponse.model_validate on a stored row:
\* a null current value cannot be divided, and current_amount,
\* current_spending and status are required fields of GoalResponse.
GoalResponseError(goal) ==
    IF goal.type = "spending_limit" /\ goal.current_spending = None
    THEN "TypeError"
    ELSE IF goal.type # "spending_limit" /\ goal.current_amount = None
    THEN "TypeError"
    ELSE IF goal.current_amount = None \/ goal.current_spending = None
            \/ goal.status = None
    THEN "ValidationError"
    ELSE ""

Response(op, user, args, status, error, body, trace) ==
    [op |-> op, user |-> user, args |-> args, status |-> status,
     error |-> error, body |-> body, trace |-> trace]

NoTrace == <<>>

create_goal(user, type, target_amount, current_amount, priority) ==
    /\ next_goal_id <= MaxGoals
    /\ LET new_goal == Goal(next_goal_id, user, type, target_amount,
                            IF Truthy(current_amount) THEN current_amount
                            ELSE Some(0),
                            IF Truthy(priority) THEN priority ELSE Some(1))
       IN  /\ goals' = Append(goals, new_goal)
           /\ response' = Response("create_goal", user,
                                   [type |-> type, target_amount |-> target_amount],
                                   201, "", <<new_goal>>, NoTrace)
    /\ next_goal_id' = next_goal_id + 1
    /\ UNCHANGED <<financial_profile, products, OPENAI_ENABLED, abandoned_once, session_vars>>

update_goal(user, goal_id, update_data) ==
    LET args == [goal_id |-> goal_id] IN
    IF GoalIndex(goal_id, user) = {}
    THEN /\ response' = Response("update_goal", user, args, 404, "Goal not found",
                                 <<>>, NoTrace)
         /\ UNCHANGED <<financial_profile, products, goals, next_goal_id,
                        OPENAI_ENABLED, abandoned_once, session_vars>>
    ELSE LET i == CHOOSE j \in GoalIndex(goal_id, user) : TRUE
             goal == StampCompleted(ApplyUpdate(goals[i], update_data))
         IN  IF update_data.target_amount = SetTo(None)
             THEN \* NOT NULL column: the commit fails and nothing is stored
                  /\ response' = Response("update_goal", user, args, 500,
                                          "IntegrityError", <<>>, NoTrace)
                  /\ UNCHANGED <<financial_profile, products, goals,
                                 next_goal_id, OPENAI_ENABLED, abandoned_once, session_vars>>
             ELSE /\ goals' = [goals EXCEPT ![i] = goal]
                  /\ abandoned_once' =
                        IF goal.status = Some("abandoned")
                        THEN abandoned_once \cup {goal.id} ELSE abandoned_once
                  /\ response' =
                        IF GoalResponseError(goal) # ""
                        THEN Response("update_goal", user, args, 500,
                                      GoalResponseError(goal), <<>>, NoTrace)
                        ELSE Response("update_goal", user, args, 200, "",
                                      <<goal>>, NoTrace)
                  /\ UNCHANGED <<financial_profile, products, next_goal_id,
                                 OPENAI_ENABLED, session_vars>>

\* A nullable request field that is left out, null, or within the values
\* its constraint allows.
FieldValid(field, allowed) ==
    field = Unset \/ field = SetTo(None) \/ Val(field[1]) \in allowed

\* Variant that accepts any target_amount.
GoalUpdateValidAnyTarget(update_data) ==
    /\ FieldValid(update_data.current_amount, Nat)
    /\ FieldValid(update_data.current_spending, Nat)
    /\ FieldValid(update_data.status, GoalStatus)
    /\ FieldValid(update_data.priority, 1..10)

\* GoalUpdate: every field Optional, target_amount gt 0, current_amount and
\* current_spending ge 0, priority within 1..10.
GoalUpdateValid(update_data) ==
    /\ FieldValid(update_data.target_amount, Nat \ {0})
    /\ FieldValid(update_data.current_amount, Nat)
    /\ FieldValid(update_data.current_spending, Nat)
    /\ FieldValid(update_data.status, GoalStatus)
    /\ FieldValid(update_data.priority, 1..10)

\* GoalCreate: target_amount required and gt 0, current_amount ge 0,
\* priority within 1..10.
GoalCreateValid(type, target_amount, current_amount, priority) ==
    /\ type \in GoalType
    /\ target_amount > 0
    /\ (current_amount = None \/ Val(current_amount) >= 0)
    /\ (priority = None \/ Val(priority) \in 1..10)

\* A request body that fails validation is answered 422 before the handler.
Unprocessable(op, user, args) ==
    /\ response' = Response(op, user, args, 422, "RequestValidationError", <<>>,
                            NoTrace)
    /\ UNCHANGED <<financial_profile, products, goals, next_goal_id,
                   OPENAI_ENABLED, abandoned_once, session_vars>>

\* POST /goals
post_goal(user, type, target_amount, current_amount, priority) ==
    IF GoalCreateValid(type, target_amount, current_amount, priority)
    THEN create_goal(user, type, target_amount, current_amount, priority)
    ELSE Unprocessable("create_goal", user,
                       [type |-> type, target_amount |-> target_amount])

\* PUT /goals/{goal_id}
put_goal(user, goal_id, update_data) ==
    IF GoalUpdateValid(update_data)
    THEN update_goal(user, goal_id, update_data)
    ELSE Unprocessable("update_goal", user, [goal_id |-> goal_id])

delete_goal(user, goal_id) ==
    LET args == [goal_id |-> goal_id] IN
    IF GoalIndex(goal_id, user) = {}
    THEN /\ response' = Response("delete_goal", user, args, 404, "Goal not found",
                                 <<>>, NoTrace)
         /\ UNCHANGED <<financial_profile, products, goals, next_goal_id,
                        OPENAI_ENABLED, abandoned_once, session_vars>>
    ELSE /\ goals' = SelectSeq(goals, LAMBDA g : g.id # goal_id)
         /\ response' = Response("delete_goal", user, args, 204, "", <<>>, NoTrace)
         /\ UNCHANGED <<financial_profile, products, next_goal_id,
                        OPENAI_ENABLED, abandoned_once, session_vars>>

-----------------------------------------------------------------------------
(* Impact analyzer: analyze_purchase_impact                                 *)

\* ORDER BY priority DESC; NULL sorts first, ties keep row order.
HigherPriority(a, b) ==
    \/ a.priority = None /\ b.priority # None
    \/ a.priority # None /\ b.priority # None /\ Val(a.priority) > Val(b.priority)

RECURSIVE InsertByPriorityDesc(_, _)
InsertByPriorityDesc(sorted, g) ==
    IF sorted = <<>> THEN <<g>>
    ELSE LET last == sorted[Len(sorted)] IN
         IF ~HigherPriority(g, last) THEN Append(sorted, g)
         ELSE Append(InsertByPriorityDesc(SubSeq(sorted, 1, Len(sorted) - 1), g),
                     last)

RECURSIVE OrderPrefix(_, _)
OrderPrefix(s, n) ==
    IF n = 0 THEN <<>> ELSE InsertByPriorityDesc(OrderPrefix(s, n - 1), s[n])

\* Variant that keeps the rows in table order.
KeepRowOrder(s) == s

OrderByPriorityDesc(s) == OrderPrefix(s, Len(s))

GoalImpact(goal, impact_percentage, new_amount, remaining, is_warning) ==
    [goal_id |-> goal.id,
     impact_percentage |-> impact_percentage,  \* hundredths of a percent
     new_amount |-> Round2(new_amount),
     remaining |-> Round2(remaining),
     is_warning |-> is_warning]

\* Variant whose warning also fires when the limit is exactly reached.
SpendingLimitImpactAtLimit(goal, purchase_amount) ==
    LET new_spending == Val(goal.current_spending) + purchase_amount IN
    GoalImpact(goal, Percent2(purchase_amount, goal.target_amount),
               Val(goal.current_amount),
               Max(goal.target_amount - new_spending, 0),
               new_spending >= goal.target_amount)

\* The spending_limit branch.
SpendingLimitImpact(goal, purchase_amount) ==
    LET new_spending == Val(goal.current_spending) + purchase_amount IN
    GoalImpact(goal, Percent2(purchase_amount, goal.target_amount),
               Val(goal.current_amount),
               Max(goal.target_amount - new_spending, 0),
               new_spending > goal.target_amount)

\* Variant whose warning also fires at exactly the threshold.
OpportunityCostImpactAtThreshold(goal, purchase_amount, threshold) ==
    GoalImpact(goal, Percent2(purchase_amount, goal.target_amount),
               Val(goal.current_amount),
               goal.target_amount - Val(goal.current_amount),
               purchase_amount * 100 >= threshold * goal.target_amount)

\* The savings (threshold 10) and debt_payoff (threshold 5) branches:
\* impact_percentage > threshold, with impact_percentage = amount / target * 100.
OpportunityCostImpact(goal, purchase_amount, threshold) ==
    GoalImpact(goal, Percent2(purchase_amount, goal.target_amount),
               Val(goal.current_amount),
               goal.target_amount - Val(goal.current_amount),
               purchase_amount * 100 > threshold * goal.target_amount)

\* One pass of the loop over the goals.
ImpactOf(goal, purchase_amount) ==
    IF goal.current_amount = None THEN Raise("TypeError")
    ELSE IF goal.type = "spending_limit" /\ goal.current_spending = None
    THEN Raise("TypeError")
    ELSE IF goal.target_amount = 0 THEN Raise("ZeroDivisionError")
    ELSE IF goal.type = "spending_limit"
    THEN Ok(SpendingLimitImpact(goal, purchase_amount))
    ELSE IF goal.type = "savings"
    THEN Ok(OpportunityCostImpact(goal, purchase_amount, 10))
    ELSE Ok(OpportunityCostImpact(goal, purchase_amount, 5))

RECURSIVE ImpactsOf(_, _)
ImpactsOf(gs, purchase_amount) ==
    IF gs = <<>> THEN Ok(<<>>)
    ELSE LET one == ImpactOf(Head(gs), purchase_amount) IN
         IF one.raised THEN one
         ELSE LET rest == ImpactsOf(Tail(gs), purchase_amount) IN
              IF rest.raised THEN rest ELSE Ok(<<one.value>> \o rest.value)

\* Variant that books the purchase on the member's spending limits.
analyze_purchase_impact_committing(user, purchase_amount) ==
    LET gs == OrderByPriorityDesc(ActiveGoalsOf(goals, user))
        impacts == ImpactsOf(gs, purchase_amount)
    IN  /\ response' = Response("analyze_purchase_impact", user,
                                [purchase_amount |-> purchase_amount],
                                IF impacts.raised THEN 500 ELSE 200,
                                impacts.error, <<>>, NoTrace)
        /\ goals' = [i \in DOMAIN goals |->
                        IF goals[i].user_id = user
                           /\ goals[i].type = "spending_limit"
                           /\ goals[i].current_spending # None
                        THEN [goals[i] EXCEPT !.current_spending =
                                 Some(Val(goals[i].current_spending)
                                         + purchase_amount)]
                        ELSE goals[i]]
        /\ UNCHANGED <<financial_profile, products, next_goal_id,
                       OPENAI_ENABLED, abandoned_once, session_vars>>

analyze_purchase_impact(user, purchase_amount) ==
    LET gs == OrderByPriorityDesc(ActiveGoalsOf(goals, user))
        impacts == ImpactsOf(gs, purchase_amount)
        args == [purchase_amount |-> purchase_amount]
    IN  /\ response' =
              IF impacts.raised
              THEN Response("analyze_purchase_impact", user, args, 500,
                            impacts.error, <<>>, NoTrace)
              ELSE Response("analyze_purchase_impact", user, args, 200, "",
                            [affected_goals |-> impacts.value,
                             total_goals |-> Len(gs),
                             warnings_count |->
                                Cardinality({i \in DOMAIN impacts.value :
                                               impacts.value[i].is_warning})],
                            NoTrace)
        /\ UNCHANGED <<financial_profile, products, goals, next_goal_id,
                       OPENAI_ENABLED, abandoned_once, session_vars>>

-----------------------------------------------------------------------------
(* The recommendation request *)

\* What get_recommendations returns when the generation call ends as reply.
RecommendationsResponse(user, amount, reply) ==
    LET gs == ActiveGoalsOf(goals, user)
        eligible_products == get_eligible_products(financial_profile[user],
                                                   products)
        out == GetRecommendations(OPENAI_ENABLED, amount, reply, gs,
                                  eligible_products)
    IN  Response("get_recommendations", user,
                 [amount |-> amount, reply |-> reply],
                 out.status, out.error, out.body,
                 [rules_ran |-> out.rules_ran, ai_recs |-> out.ai_recs])

get_recommendations(user, amount, reply) ==
    /\ response' = RecommendationsResponse(user, amount, reply)
    /\ UNCHANGED <<financial_profile, products, goals, next_goal_id,
                   OPENAI_ENABLED, abandoned_once, session_vars>>

-----------------------------------------------------------------------------
(* Tokens: app/auth.py                                                      *)

ACCESS_TOKEN_EXPIRE_MINUTES == 30
SecondsPerMinute == 60

\* jwt.encode of a payload: two tokens are the same string exactly when
\* their payloads are equal; exp is in whole seconds.
create_access_token(user) ==
    [sub |-> user, exp |-> now + ACCESS_TOKEN_EXPIRE_MINUTES * SecondsPerMinute,
     type |-> "access"]

create_refresh_token(user) ==
    [sub |-> user, exp |-> now + RefreshLifetime, type |-> "refresh"]

\* A string that is no JWT signed with SECRET_KEY.
NotAJwt == [sub |-> 0, exp |-> 0, type |-> "garbage"]

\* verify_token: None for a string that does not decode, for another token
\* type, and for an exp in the past.
verify_token(token, token_type) ==
    IF token = NotAJwt THEN None
    ELSE IF token.type # token_type THEN None
    ELSE IF token.exp < now THEN None
    ELSE Some(token)

\* A row of refresh_tokens as login and refresh_token store it.
RefreshToken(user_id, token) ==
    [user_id |-> user_id, token |-> token,
     expires_at |-> now + RefreshLifetime, revoked |-> FALSE]

\* token is a unique column: a second row with the same string is refused.
TokenStored(token) ==
    \E i \in DOMAIN refresh_tokens : refresh_tokens[i].token = token

\* The holder of an access token that decode_token accepts: access tokens
\* are issued together with a refresh token row, by login and refresh_token.
Authenticated(user) ==
    \E i \in DOMAIN refresh_tokens :
        /\ refresh_tokens[i].user_id = user
        /\ verify_token([sub |-> user,
                         exp |-> refresh_tokens[i].expires_at - RefreshLifetime
                                   + ACCESS_TOKEN_EXPIRE_MINUTES * SecondsPerMinute,
                         type |-> "access"], "access") # None

-----------------------------------------------------------------------------
(* Auth router and users router                                             *)

\* POST /auth/login
login(user, password_matches) ==
    LET args == [password_matches |-> password_matches]
        refresh_token_str == create_refresh_token(user)
    IN
    IF ~password_matches
    THEN /\ response' = Response("login", user, args, 401,
                                 "Incorrect email or password", <<>>, NoTrace)
         /\ UNCHANGED <<financial_profile, products, goals, next_goal_id,
                        OPENAI_ENABLED, abandoned_once, session_vars>>
    ELSE IF ~users_is_active[user]
    THEN /\ response' = Response("login", user, args, 403,
                                 "Account is inactive", <<>>, NoTrace)
         /\ UNCHANGED <<financial_profile, products, goals, next_goal_id,
                        OPENAI_ENABLED, abandoned_once, session_vars>>
    ELSE IF TokenStored(refresh_token_str)
    THEN \* unique violation at commit: nothing is stored
         /\ response' = Response("login", user, args, 500, "IntegrityError",
                                 <<>>, NoTrace)
         /\ UNCHANGED <<financial_profile, products, goals, next_goal_id,
                        OPENAI_ENABLED, abandoned_once, session_vars>>
    ELSE /\ Len(refresh_tokens) < MaxTokens
         /\ refresh_tokens' = Append(refresh_tokens,
                                     RefreshToken(user, refresh_token_str))
         /\ response' = Response("login", user, args, 200, "",
                                 [access_token |-> create_access_token(user),
                                  refresh_token |-> refresh_token_str],
                                 NoTrace)
         /\ UNCHANGED <<financial_profile, products, goals, next_goal_id,
                        OPENAI_ENABLED, abandoned_once, now, users_is_active,
                        analytics_events, in_flight, ai_call>>

\* The row refresh_token selects: token, user_id and revoked == False.
StoredToken(token, user_id) ==
    {i \in DOMAIN refresh_tokens :
        /\ refresh_tokens[i].token = token
        /\ refresh_tokens[i].user_id = user_id
        /\ ~refresh_tokens[i].revoked}

\* Variant of the selection that ignores the revoked column.
StoredTokenAnyState(token, user_id) ==
    {i \in DOMAIN refresh_tokens :
        /\ refresh_tokens[i].token = token
        /\ refresh_tokens[i].user_id = user_id}

\* Variant of the rotation that stores the new row and leaves the old one.
RotatedKeepingOld(table, i, new_token) == Append(table, new_token)

\* stored_token.revoked = True; db.add(new_token)
Rotated(table, i, new_token) ==
    Append([table EXCEPT ![i].revoked = TRUE], new_token)

\* POST /auth/refresh, when no other request runs between its SELECT and
\* its COMMIT.
refresh_token(token) ==
    LET args == [refresh_token |-> token]
        payload == verify_token(token, "refresh")
    IN
    IF payload = None
    THEN /\ response' = Response("refresh_token", 0, args, 401,
                                 "Invalid or expired refresh token", <<>>,
                                 NoTrace)
         /\ UNCHANGED <<financial_profile, products, goals, next_goal_id,
                        OPENAI_ENABLED, abandoned_once, session_vars>>
    ELSE LET user_id == Val(payload).sub
             found == StoredToken(token, user_id)
         IN
         IF found = {}
              \/ \E i \in found : refresh_tokens[i].expires_at < now
         THEN /\ response' = Response("refresh_token", user_id, args, 401,
                                      "Invalid or expired refresh token",
                                      <<>>, NoTrace)
              /\ UNCHANGED <<financial_profile, products, goals, next_goal_id,
                             OPENAI_ENABLED, abandoned_once, session_vars>>
         ELSE IF TokenStored(create_refresh_token(user_id))
         THEN \* unique violation at commit: the revocation is rolled back
              /\ response' = Response("refresh_token", user_id, args, 500,
                                      "IntegrityError", <<>>, NoTrace)
              /\ UNCHANGED <<financial_profile, products, goals, next_goal_id,
                             OPENAI_ENABLED, abandoned_once, session_vars>>
         ELSE /\ Len(refresh_tokens) < MaxTokens
              /\ refresh_tokens' =
                    Rotated(refresh_tokens, CHOOSE i \in found : TRUE,
                            RefreshToken(user_id,
                                         create_refresh_token(user_id)))
              /\ response' =
                    Response("refresh_token", user_id, args, 200, "",
                             [access_token |-> create_access_token(user_id),
                              refresh_token |-> create_refresh_token(user_id)],
                             NoTrace)
              /\ UNCHANGED <<financial_profile, products, goals, next_goal_id,
                             OPENAI_ENABLED, abandoned_once, now,
                             users_is_active, analytics_events, in_flight,
                             ai_call>>

\* Variant of logout that revokes every stored token.
RevokedOfEveryone(table, user) ==
    [i \in DOMAIN table |-> [table[i] EXCEPT !.revoked = TRUE]]

\* `for token in tokens: token.revoked = True` over the user's tokens.
RevokedOf(table, user) ==
    [i \in DOMAIN table |->
        IF table[i].user_id = user THEN [table[i] EXCEPT !.revoked = TRUE]
        ELSE table[i]]

\* POST /auth/logout
logout(user) ==
    /\ Authenticated(user)
    /\ refresh_tokens' = RevokedOf(refresh_tokens, user)
    /\ response' = Response("logout", user, <<>>, 204, "", <<>>, NoTrace)
    /\ UNCHANGED <<financial_profile, products, goals, next_goal_id,
                   OPENAI_ENABLED, abandoned_once, now, users_is_active,
                   analytics_events, in_flight, ai_call>>

\* `current_user.is_active = False`
SoftDeleted(active, user) == [active EXCEPT ![user] = FALSE]

\* DELETE /users/me
delete_my_account(user) ==
    /\ Authenticated(user)
    /\ users_is_active' = SoftDeleted(users_is_active, user)
    /\ response' = Response("delete_my_account", user, <<>>, 204, "", <<>>,
                            NoTrace)
    /\ UNCHANGED <<financial_profile, products, goals, next_goal_id,
                   OPENAI_ENABLED, abandoned_once, now, refresh_tokens,
                   analytics_events, in_flight, ai_call>>

\* PUT /users/me: UserUpdate carries first_name, last_name, phone, segment,
\* financial_profile and preferences; of these the model keeps
\* financial_profile.
update_my_profile(user, user_update) ==
    /\ Authenticated(user)
    /\ financial_profile' =
          IF user_update.financial_profile = Unset THEN financial_profile
          ELSE [financial_profile EXCEPT
                   ![user] = Val(user_update.financial_profile)]
    /\ response' = Response("update_my_profile", user, user_update, 200, "",
                            <<>>, NoTrace)
    /\ UNCHANGED <<products, goals, next_goal_id, OPENAI_ENABLED,
                   abandoned_once, session_vars>>

\* POST /recommendations/track
track_recommendation_event(user) ==
    /\ Authenticated(user)
    /\ Len(analytics_events) < MaxEvents
    /\ analytics_events' = Append(analytics_events, [user_id |-> user])
    /\ response' = Response("track_recommendation_event", user, <<>>, 204, "",
                            <<>>, NoTrace)
    /\ UNCHANGED <<financial_profile, products, goals, next_goal_id,
                   OPENAI_ENABLED, abandoned_once, now, users_is_active,
                   refresh_tokens, in_flight, ai_call>>

\* POST /auth/refresh up to `await db.commit()`: the token is verified, the
\* stored row selected, and the new tokens and the new row made from the
\* clock of that moment. A request that is refused returns here; an accepted
\* one goes on to its commit.
refresh_select(r, token) ==
    LET args == [refresh_token |-> token]
        payload == verify_token(token, "refresh")
        user_id == IF payload = None THEN 0 ELSE Val(payload).sub
        found == IF payload = None THEN {} ELSE StoredToken(token, user_id)
        refused == \/ found = {}
                   \/ \E i \in found : refresh_tokens[i].expires_at < now
    IN
    /\ in_flight[r] = Idle
    /\ in_flight' =
          [in_flight EXCEPT
              ![r] = IF refused
                     THEN [pc |-> "returned", token |-> token, status |-> 401]
                     ELSE [pc |-> "selected", token |-> token,
                           user_id |-> user_id,
                           stored_token |-> CHOOSE i \in found : TRUE,
                           access_token |-> create_access_token(user_id),
                           new_token |->
                              RefreshToken(user_id,
                                           create_refresh_token(user_id))]]
    /\ response' =
          IF refused
          THEN Response("refresh_token", user_id, args, 401,
                        "Invalid or expired refresh token", <<>>, NoTrace)
          ELSE response
    /\ UNCHANGED <<financial_profile, products, goals, next_goal_id,
                   OPENAI_ENABLED, abandoned_once, now, users_is_active,
                   refresh_tokens, analytics_events, ai_call>>

\* `await db.commit()` of POST /auth/refresh: the UPDATE of the selected row
\* by its primary key and the INSERT of the new row, committed together.
\* Nothing re-reads revoked, and the row was not locked by the SELECT.
refresh_commit(r) ==
    LET req == in_flight[r]
        args == [refresh_token |-> req.token]
        new_refresh_token == req.new_token.token
    IN
    /\ req.pc = "selected"
    /\ IF TokenStored(new_refresh_token)
       THEN /\ in_flight' = [in_flight EXCEPT
                                ![r] = [pc |-> "returned", token |-> req.token,
                                        status |-> 500]]
            /\ response' = Response("refresh_token", req.user_id, args, 500,
                                    "IntegrityError", <<>>, NoTrace)
            /\ UNCHANGED refresh_tokens
       ELSE /\ Len(refresh_tokens) < MaxTokens
            /\ refresh_tokens' = Rotated(refresh_tokens, req.stored_token,
                                         req.new_token)
            /\ in_flight' = [in_flight EXCEPT
                                ![r] = [pc |-> "returned", token |-> req.token,
                                        status |-> 200,
                                        refresh_token |-> new_refresh_token]]
            /\ response' =
                  Response("refresh_token", req.user_id, args, 200, "",
                           [access_token |-> req.access_token,
                            refresh_token |-> new_refresh_token], NoTrace)
    /\ UNCHANGED <<financial_profile, products, goals, next_goal_id,
                   OPENAI_ENABLED, abandoned_once, now, users_is_active,
                   analytics_events, ai_call>>

-----------------------------------------------------------------------------
(* Data of the model *)

Profile(credit_score, annual_income, dti_ratio) ==
    [credit_score |-> credit_score, annual_income |-> annual_income,
     dti_ratio |-> dti_ratio]

\* auth.register stores financial_profile = {}.
EmptyProfile == Profile(None, None, None)

\* scripts/init_db.py, persona 1.
SarahProfile == Profile(Some(720), Some(65000), Some(28))

Product(id, type, base_rate, min_credit_score, min_income, max_dti_ratio, is_active) ==
    [id |-> id, type |-> type, base_rate |-> base_rate,
     min_credit_score |-> min_credit_score, min_income |-> min_income,
     max_dti_ratio |-> max_dti_ratio, is_active |-> is_active]

\* scripts/init_db.py, the six seeded products.
SeedCatalog ==
    << Product(1, "credit_card", Some(1699), Some(650), Some(30000), None, TRUE),
       Product(2, "credit_card", Some(1899), Some(720), Some(75000), None, TRUE),
       Product(3, "loan", Some(799), Some(640), Some(35000), Some(43), TRUE),
       Product(4, "loan", Some(649), Some(680), Some(50000), Some(40), TRUE),
       Product(5, "savings_account", Some(425), None, None, None, TRUE),
       Product(6, "checking_account", None, None, None, None, TRUE) >>

\* One draft of an AI reply.
AiDraft(type, priority, has_title, has_description, product_name) ==
    [is_dict |-> TRUE, type |-> type, priority |-> priority,
     has_title |-> has_title, has_description |-> has_description,
     product_name |-> product_name]

\* An element of the reply that is not a JSON object.
AiNotADict ==
    [is_dict |-> FALSE, type |-> None, priority |-> None, has_title |-> FALSE,
     has_description |-> FALSE, product_name |-> None]

ReplyRaise == [kind |-> "raise", doc |-> <<>>]
ReplyNotJson == [kind |-> "not_json", doc |-> <<>>]
ReplyArray ==
    [kind |-> "json",
     doc |-> [shape |-> "array", has_recommendations |-> FALSE,
              recommendations |-> PyList(<<>>)]]
ReplyNoKey ==
    [kind |-> "json",
     doc |-> [shape |-> "object", has_recommendations |-> FALSE,
              recommendations |-> PyList(<<>>)]]
ReplyWith(v) ==
    [kind |-> "json",
     doc |-> [shape |-> "object", has_recommendations |-> TRUE,
              recommendations |-> v]]

GoodDraft(type, priority) == AiDraft(Some(type), priority, TRUE, TRUE, None)

\* Replies offered to the service as a whole.
ServiceReplies ==
    { ReplyRaise,
      ReplyWith(PyList(<<GoodDraft("alert", Some(2)),
                         AiDraft(Some("loan"), Some(1), TRUE, TRUE, Some({3}))>>)) }

\* Request bodies of PUT /goals/{id}.
GoalUpdate(target_amount, current_amount, current_spending, status, priority) ==
    [target_amount |-> target_amount, current_amount |-> current_amount,
     current_spending |-> current_spending, status |-> status,
     priority |-> priority]

GoalUpdates ==
    {GoalUpdate(Unset, Unset, Unset, SetTo(Some(st)), Unset) : st \in GoalStatus}
    \cup { GoalUpdate(SetTo(None), Unset, Unset, Unset, Unset) }

\* Purchase amounts of impact requests: 114.996, 115, 150 dollars.
ImpactAmounts == {Dollars(115) - 4, Dollars(115), Dollars(150)}

\* Goal types and purchase amounts offered to the service as a whole.
ServiceGoalTypes == {"spending_limit", "savings"}
ServiceImpactAmounts == {Dollars(150)}

\* Purchase amounts of recommendation requests.
ServiceAmounts == {Dollars(6000)}

-----------------------------------------------------------------------------
(* The chat completion request of get_recommendations                       *)

\* OpenAI(api_key=...) is built without max_retries and create(...) is
\* called without timeout, so the client library's defaults apply: a
\* request is given up after 600 seconds, and a timeout, a connection error
\* or a 408, 409, 429 or 5xx answer is tried again up to 2 more times
\* before the exception reaches the caller.
DEFAULT_MAX_RETRIES == 2
DEFAULT_TIMEOUT == 600

\* How one attempt of the request can fail.
RetriedFailures == {"timeout", "connection_error", "status_5xx"}
RaisedFailures == {"status_401"}

\* get_recommendations up to the first attempt of
\* openai_client.chat.completions.create.
ai_request(user, amount) ==
    /\ OPENAI_ENABLED
    /\ ai_call.pc \in {"idle", "returned"}
    /\ ai_call.pc = "returned" => ai_call.served < MaxAiRequests
    /\ ai_call' = [pc |-> "awaiting", user |-> user, amount |-> amount,
                   attempts |-> 1, failures |-> 0, waited |-> 0,
                   served |-> IF ai_call.pc = "idle" THEN 1
                              ELSE ai_call.served + 1]
    /\ UNCHANGED <<financial_profile, products, goals, next_goal_id,
                   OPENAI_ENABLED, response, abandoned_once, now,
                   users_is_active, refresh_tokens, analytics_events,
                   in_flight>>

\* The service answers the attempt in progress; the handler goes on with
\* the content of the answer.
ai_answers(reply) ==
    /\ ai_call.pc = "awaiting"
    /\ reply.kind # "raise"
    /\ response' = RecommendationsResponse(ai_call.user, ai_call.amount, reply)
    /\ ai_call' = [ai_call EXCEPT !.pc = "returned"]
    /\ UNCHANGED <<financial_profile, products, goals, next_goal_id,
                   OPENAI_ENABLED, abandoned_once, now, users_is_active,
                   refresh_tokens, analytics_events, in_flight>>

\* The attempt in progress fails: the client sends the request again while
\* it has retries left, otherwise create(...) raises, the `except Exception`
\* of generate_ai_recommendations returns [] and the handler falls back to
\* the rules.
ai_attempt_fails(failure) ==
    /\ ai_call.pc = "awaiting"
    /\ IF failure \in RetriedFailures /\ ai_call.attempts <= DEFAULT_MAX_RETRIES
       THEN /\ ai_call' = [ai_call EXCEPT
                              !.attempts = @ + 1, !.failures = @ + 1,
                              !.waited = IF failure = "timeout"
                                         THEN @ + DEFAULT_TIMEOUT ELSE @]
            /\ UNCHANGED response
       ELSE /\ response' = RecommendationsResponse(ai_call.user,
                                                   ai_call.amount, ReplyRaise)
            /\ ai_call' = [ai_call EXCEPT
                              !.pc = "returned", !.failures = @ + 1,
                              !.waited = IF failure = "timeout"
                                         THEN @ + DEFAULT_TIMEOUT ELSE @]
    /\ UNCHANGED <<financial_profile, products, goals, next_goal_id,
                   OPENAI_ENABLED, abandoned_once, now, users_is_active,
                   refresh_tokens, analytics_events, in_flight>>

\* GET /goals/{goal_id}
get_goal(user, goal_id) ==
    LET args == [goal_id |-> goal_id] IN
    /\ response' =
          IF GoalIndex(goal_id, user) = {}
          THEN Response("get_goal", user, args, 404, "Goal not found", <<>>,
                        NoTrace)
          ELSE LET goal == goals[CHOOSE j \in GoalIndex(goal_id, user) : TRUE]
               IN  IF GoalResponseError(goal) # ""
                   THEN Response("get_goal", user, args, 500,
                                 GoalResponseError(goal), <<>>, NoTrace)
                   ELSE Response("get_goal", user, args, 200, "", <<goal>>,
                                 NoTrace)
    /\ UNCHANGED <<financial_profile, products, goals, next_goal_id,
                   OPENAI_ENABLED, abandoned_once, session_vars>>

\* The reverse of a sequence.
Reverse(s) == [i \in 1..Len(s) |-> s[Len(s) + 1 - i]]

\* ORDER BY priority DESC, created_at DESC: rows are stored in creation
\* order, so equal priorities come latest row first.
ListingOrder(rows) == OrderByPriorityDesc(Reverse(rows))

\* GET /goals, with the optional status filter: an empty or absent filter
\* selects every goal of the user, a value outside GoalStatus is refused.
get_goals(user, status_filter) ==
    LET args == [status_filter |-> status_filter]
        mine == SelectSeq(goals, LAMBDA g : g.user_id = user)
        rows == ListingOrder(
                    IF status_filter \in {None, Some("")} THEN mine
                    ELSE SelectSeq(mine, LAMBDA g : g.status = status_filter))
        failing == {i \in DOMAIN rows : GoalResponseError(rows[i]) # ""}
    IN
    /\ response' =
          IF status_filter \notin {None, Some("")}
                /\ Val(status_filter) \notin GoalStatus
          THEN Response("get_goals", user, args, 400, "Invalid status", <<>>,
                        NoTrace)
          ELSE IF failing # {}
          THEN Response("get_goals", user, args, 500,
                        GoalResponseError(
                            rows[CHOOSE i \in failing :
                                    \A j \in failing : i <= j]),
                        <<>>, NoTrace)
          ELSE Response("get_goals", user, args, 200, "",
                        [goals |-> rows, total |-> Len(rows)], NoTrace)
    /\ UNCHANGED <<financial_profile, products, goals, next_goal_id,
                   OPENAI_ENABLED, abandoned_once, session_vars>>

-----------------------------------------------------------------------------
(* The service *)

NoResponse == Response("none", 0, <<>>, 0, "", <<>>, NoTrace)

Init ==
    /\ financial_profile = [u \in Users |-> IF u = 1 THEN SarahProfile
                                           ELSE EmptyProfile]
    /\ products = SeedCatalog
    /\ goals = <<>>
    /\ next_goal_id = 1
    /\ OPENAI_ENABLED \in BOOLEAN
    /\ response = NoResponse
    /\ abandoned_once = {}
    /\ SeededSessions

CreateGoal ==
    \E user \in Users, type \in ServiceGoalTypes :
        create_goal(user, type, Dollars(300), None, None)

UpdateGoal ==
    \E user \in Users, goal_id \in 1..MaxGoals, update_data \in GoalUpdates :
        update_goal(user, goal_id, update_data)

DeleteGoal ==
    \E user \in Users, goal_id \in 1..MaxGoals : delete_goal(user, goal_id)

AnalyzePurchaseImpact ==
    \E user \in Users, purchase_amount \in ServiceImpactAmounts :
        analyze_purchase_impact(user, purchase_amount)

GetRecommendationsRequest ==
    \E user \in Users, amount \in ServiceAmounts, reply \in ServiceReplies :
        get_recommendations(user, amount, reply)

Next ==
    \/ CreateGoal
    \/ UpdateGoal
    \/ DeleteGoal
    \/ AnalyzePurchaseImpact
    \/ GetRecommendationsRequest

Spec == Init /\ [][Next]_vars

-----------------------------------------------------------------------------
(* The eligibility filter on its own: every profile against every catalog   *)

OptionalOf(S) == {None} \cup {Some(v) : v \in S}

ProfileSpace ==
    {Profile(cs, inc, dti) : cs \in OptionalOf({0, 650, 750}),
                             inc \in OptionalOf({0, 40000}),
                             dti \in OptionalOf({45})}

ProductSpace(id) ==
    {Product(id, "loan", Some(799), mcs, minc, mdti, act) :
        mcs \in OptionalOf({700}), minc \in OptionalOf({30000}),
        mdti \in OptionalOf({43}), act \in BOOLEAN}

\* Tables of n rows with ids 1..n.
RECURSIVE CatalogsOfLen(_)
CatalogsOfLen(n) ==
    IF n = 0 THEN {<<>>}
    ELSE {Append(c, p) : c \in CatalogsOfLen(n - 1), p \in ProductSpace(n)}

CatalogSpace == UNION {CatalogsOfLen(n) : n \in 0..MaxCatalog}

InitElig ==
    /\ \E profile \in ProfileSpace :
          financial_profile = [u \in Users |-> IF u = 1 THEN profile
                                                ELSE EmptyProfile]
    /\ products \in CatalogSpace
    /\ goals = <<>>
    /\ next_goal_id = 1
    /\ OPENAI_ENABLED = FALSE
    /\ response = NoResponse
    /\ abandoned_once = {}
    /\ SeededSessions

eligibility_query(user) ==
    /\ response' = Response("get_eligible_products", user, <<>>, 200, "",
                            get_eligible_products(financial_profile[user],
                                                  products),
                            NoTrace)
    /\ UNCHANGED <<financial_profile, products, goals, next_goal_id,
                   OPENAI_ENABLED, abandoned_once, session_vars>>

\* One query per drawn profile and catalog.
NextElig ==
    /\ response = NoResponse
    /\ \E user \in Users : eligibility_query(user)

SpecElig == InitElig /\ [][NextElig]_vars

\* A threshold as the specification reads it: a profile field is known
\* whenever it holds a number, 0 included.
ThresholdMet(known_value, threshold, at_least) ==
    \/ known_value = None
    \/ threshold = None
    \/ IF at_least THEN Val(known_value) >= Val(threshold)
       ELSE Val(known_value) <= Val(threshold)

MeetsAllThresholds(profile, p) ==
    /\ ThresholdMet(profile.credit_score, p.min_credit_score, TRUE)
    /\ ThresholdMet(profile.annual_income, p.min_income, TRUE)
    /\ ThresholdMet(profile.dti_ratio, p.max_dti_ratio, FALSE)

\* C5: get_eligible_products returns exactly the active products all of whose
\* thresholds are met, a profile field being known whenever it is present
\* with a numeric value, 0 included.
C5_EligibleExactly ==
    response.op = "get_eligible_products" =>
        response.body =
            SelectSeq(products,
                      LAMBDA p : p.is_active
                                 /\ MeetsAllThresholds(
                                        financial_profile[response.user], p))

\* C6: an inactive product is never returned, and an active product is
\* returned whenever each of its thresholds is null, or is on a field the
\* profile does not hold, or is met: absence of data never disqualifies.
C6_AbsenceNeverDisqualifies ==
    response.op = "get_eligible_products" =>
        \A i \in DOMAIN products :
            LET p == products[i]
                profile == financial_profile[response.user]
            IN  /\ ~p.is_active => p \notin Range(response.body)
                /\ (p.is_active /\ MeetsAllThresholds(profile, p))
                       => p \in Range(response.body)

\* An unknown credit score against a product that sets a minimum score, next
\* to an inactive product without thresholds that was left out.
C6_Witness ==
    /\ response.op = "get_eligible_products"
    /\ financial_profile[response.user].credit_score = None
    /\ \E p \in Range(response.body) : p.min_credit_score # None
    /\ \E i \in DOMAIN products :
          /\ ~products[i].is_active
          /\ products[i].min_credit_score = None
          /\ products[i].min_income = None
          /\ products[i].max_dti_ratio = None
          /\ products[i] \notin Range(response.body)

-----------------------------------------------------------------------------
(* The rules-based generator on its own                                     *)

\* Goal rows as create_goal and update_goal leave them: target 300 dollars.
GoalRow(id, type, status, current_spending) ==
    [Goal(id, 1, type, Dollars(300), Some(0), Some(1)) EXCEPT
        !.status = Some(status), !.current_spending = Some(current_spending)]

RuleGoalSpace(id) ==
    { GoalRow(id, "spending_limit", "active", Dollars(185)),
      GoalRow(id, "spending_limit", "paused", Dollars(185)),
      GoalRow(id, "savings", "active", 0) }

RECURSIVE GoalListsOfLen(_)
GoalListsOfLen(n) ==
    IF n = 0 THEN {<<>>}
    ELSE {Append(gs, g) : gs \in GoalListsOfLen(n - 1), g \in RuleGoalSpace(n)}

GoalListSpace == UNION {GoalListsOfLen(n) : n \in 0..MaxSeqLen}

\* Loans whose base_rate column is NULL or 0.
NullRateLoan == Product(7, "loan", None, None, None, None, TRUE)
ZeroRateLoan == Product(8, "loan", Some(0), None, None, None, TRUE)

EligibleListSpace ==
    { <<>>, SeedCatalog, <<SeedCatalog[1]>>, <<SeedCatalog[4], SeedCatalog[3]>>,
      <<SeedCatalog[1], NullRateLoan, SeedCatalog[3]>>,
      <<ZeroRateLoan, SeedCatalog[2]>> }

\* 50, 75, 115, 150, 500, 600, 5000, 5000.001 and 6000 dollars.
RuleAmounts ==
    {Dollars(50), Dollars(75), Dollars(115), Dollars(150), Dollars(500),
     Dollars(600), Dollars(5000), Dollars(5000) + 1, Dollars(6000)}

InitRules ==
    /\ financial_profile = [u \in Users |-> EmptyProfile]
    /\ products \in EligibleListSpace
    /\ goals \in GoalListSpace
    /\ next_goal_id = Len(goals) + 1
    /\ OPENAI_ENABLED = FALSE
    /\ response = NoResponse
    /\ abandoned_once = {}
    /\ SeededSessions

rules_call(amount) ==
    LET rules == generate_rules_based_recommendations(amount, goals, products)
    IN  /\ response' = Response("generate_rules_based_recommendations", 1,
                                [amount |-> amount],
                                IF rules.raised THEN 500 ELSE 200,
                                rules.error, rules.value, NoTrace)
        /\ UNCHANGED <<financial_profile, products, goals, next_goal_id,
                       OPENAI_ENABLED, abandoned_once, session_vars>>

\* One call per drawn input.
NextRules ==
    /\ response = NoResponse
    /\ \E amount \in RuleAmounts : rules_call(amount)

SpecRules == InitRules /\ [][NextRules]_vars

SortedByPriority(s) ==
    \A i \in 1..(Len(s) - 1) : s[i].priority <= s[i + 1].priority

\* The spending_limit goals of the table that the purchase would breach.
Breached(amount) ==
    {i \in DOMAIN goals :
        /\ goals[i].type = "spending_limit"
        /\ goals[i].status = Some("active")
        /\ goals[i].current_spending # None
        /\ Val(goals[i].current_spending) + amount > goals[i].target_amount}

\* C3: whatever the amount, the goals and the eligible products, the rules
\* generator returns at most 5 drafts, in non-decreasing priority order.
C3_AtMostFiveSorted ==
    (response.op = "generate_rules_based_recommendations"
        /\ response.status = 200)
    => /\ Len(response.body) <= 5
       /\ SortedByPriority(response.body)

\* Six breached limits and a cashback draft were emitted; five alerts remain.
C3_Witness ==
    /\ response.op = "generate_rules_based_recommendations"
    /\ response.status = 200
    /\ response.args.amount = Dollars(150)
    /\ Cardinality(Breached(response.args.amount)) = 6
    /\ Len(response.body) = 5

\* C4: with amount > 5000 and a first eligible loan whose base_rate is null
\* or 0, the generator does not raise, and (fewer than 5 alerts being
\* emitted) returns a loan draft without a payment estimate.
C4_ZeroRateLoanStillOffered ==
    LET loans == ProductsOfType(products, "loan") IN
    (response.op = "generate_rules_based_recommendations"
        /\ response.args.amount > Dollars(5000)
        /\ loans # <<>>
        /\ loans[1].base_rate \in {None, Some(0)})
    => /\ response.status = 200
       /\ Cardinality(Breached(response.args.amount)) < 5
            => \E i \in DOMAIN response.body :
                  /\ response.body[i].type = "loan"
                  /\ response.body[i].product = Some(loans[1].id)
                  /\ ~response.body[i].payment_estimate

-----------------------------------------------------------------------------
(* The orchestrator against every reply of the external model               *)

\* Well-formed alert drafts with priority absent, 1 or 3.
AiDraftSpace == {GoodDraft("alert", pr) : pr \in OptionalOf({1, 3})}

RECURSIVE DraftListsOfLen(_)
DraftListsOfLen(n) ==
    IF n = 0 THEN {<<>>}
    ELSE {Append(ds, d) : ds \in DraftListsOfLen(n - 1), d \in AiDraftSpace}

\* Replies that did not arrive or whose payload has the wrong shape.
FailedReplies ==
    { ReplyRaise, ReplyNotJson, ReplyArray, ReplyNoKey,
      ReplyWith(PyOther("null", 0)),
      ReplyWith(PyOther("str", 3)), ReplyWith(PyOther("str", 0)),
      ReplyWith(PyOther("int", 7)), ReplyWith(PyOther("dict", 1)),
      ReplyWith(PyList(<<AiNotADict>>)),
      ReplyWith(PyList(<<GoodDraft("alert", Some(1)),
                         AiDraft(Some("alert"), Some(2), FALSE, TRUE, None)>>)),
      ReplyWith(PyList(<<AiDraft(Some("cashback"), Some(1), TRUE, FALSE, None)>>)) }

\* Replies of well-formed drafts whose type is absent, known or unknown, and
\* that may name a product.
TypedReplies ==
    { ReplyWith(PyList(<<AiDraft(None, None, TRUE, TRUE, None)>>)),
      ReplyWith(PyList(<<AiDraft(Some("tip"), Some(1), TRUE, TRUE, None)>>)),
      ReplyWith(PyList(<<GoodDraft("loan", Some(2)),
                         AiDraft(Some("insight"), None, TRUE, TRUE, None)>>)),
      ReplyWith(PyList(<<AiDraft(Some("loan"), Some(1), TRUE, TRUE, Some({3, 4})),
                         AiDraft(Some("credit_card"), Some(2), TRUE, TRUE,
                                 Some({2}))>>)) }

OrchReplies ==
    FailedReplies \cup TypedReplies
    \cup {ReplyWith(PyList(ds)) :
            ds \in UNION {DraftListsOfLen(n) : n \in 0..MaxSeqLen}}

\* Goal tables: user 1 with a spending limit of 300 of which 185 is spent.
OrchStores ==
    { <<>>,
      <<GoalRow(1, "spending_limit", "active", Dollars(185))>>,
      <<GoalRow(1, "savings", "active", 0),
        GoalRow(2, "spending_limit", "active", Dollars(185)),
        GoalRow(3, "spending_limit", "paused", Dollars(185))>> }

OrchAmounts == {Dollars(75), Dollars(600), Dollars(6000)}

InitOrch ==
    /\ financial_profile = [u \in Users |-> IF u = 1 THEN SarahProfile
                                           ELSE EmptyProfile]
    /\ products = SeedCatalog
    /\ goals \in OrchStores
    /\ next_goal_id = Len(goals) + 1
    /\ OPENAI_ENABLED \in BOOLEAN
    /\ response = NoResponse
    /\ abandoned_once = {}
    /\ SeededSessions

\* One request per drawn context.
NextOrch ==
    /\ response = NoResponse
    /\ \E user \in Users, amount \in OrchAmounts, reply \in OrchReplies :
          get_recommendations(user, amount, reply)

SpecOrch == InitOrch /\ [][NextOrch]_vars

\* What the last recommendation request was served from.
ReqGoals == ActiveGoalsOf(goals, response.user)
ReqEligible == get_eligible_products(financial_profile[response.user], products)
ReqRules ==
    generate_rules_based_recommendations(response.args.amount, ReqGoals,
                                         ReqEligible)
ReqReply == response.args.reply
ReqItems == ReqReply.doc.recommendations.items

IsDraftList(reply) ==
    /\ reply.kind = "json"
    /\ reply.doc.shape = "object"
    /\ reply.doc.has_recommendations
    /\ reply.doc.recommendations.t = "list"

\* The generation attempt failed: no reply, no JSON, or a payload that is no
\* object with a 'recommendations' list of entries with title and description.
AttemptFailed(reply) ==
    \/ ~IsDraftList(reply)
    \/ \E i \in DOMAIN reply.doc.recommendations.items :
          LET d == reply.doc.recommendations.items[i] IN
          ~d.is_dict \/ ~d.has_title \/ ~d.has_description

\* C1: with the AI capability enabled, a failed generation attempt gives
\* exactly the rules-based list for the same context, never an error.
C1_FailureFallsBackToRules ==
    (response.op = "get_recommendations" /\ OPENAI_ENABLED
        /\ AttemptFailed(ReqReply))
    => /\ response.status = 200
       /\ response.body = ReqRules.value

\* The drafts a well-formed reply converts to.
ReqConverted == ConvertAll(ReqReply.doc.recommendations, ReqEligible)

\* C2: when the adapter yields drafts, the response is those drafts stably
\* sorted by ascending priority, then cut to the first 5.
C2_AiDraftsRankedAndTruncated ==
    (response.op = "get_recommendations" /\ response.status = 200
        /\ ~response.trace.rules_ran)
    => /\ Len(response.body) <= 5
       /\ SortedByPriority(response.body)
       /\ response.body = Truncate(SortByPriority(ReqConverted.value))

\* The adapter yielded at least one draft for the last request.
ReqYielded ==
    /\ OPENAI_ENABLED
    /\ PyTruthy(generate_ai_recommendations(OPENAI_ENABLED, ReqReply).value)

\* C7: the rules generator runs exactly when the adapter is disabled or
\* yielded nothing, and then the response is its output; otherwise every
\* returned recommendation is the conversion of an AI draft, in order.
C7_SourcesNeverMerged ==
    response.op = "get_recommendations" =>
        /\ response.trace.rules_ran <=> ~ReqYielded
        /\ (response.trace.rules_ran /\ response.status = 200)
              => response.body = ReqRules.value
        /\ (~response.trace.rules_ran /\ response.status = 200)
              => /\ Len(response.body) <= Len(ReqItems)
                 /\ \A i \in DOMAIN response.body :
                       response.body[i]
                          = ConvertDraft(i - 1, ReqItems[i], ReqEligible).value

\* AI drafts were returned although the rules had drafts of their own.
C7_Witness ==
    /\ response.op = "get_recommendations"
    /\ response.status = 200
    /\ ReqYielded
    /\ ~response.trace.rules_ran
    /\ Len(response.body) = 2
    /\ ~ReqRules.raised
    /\ Len(ReqRules.value) = 2

\* C8: a draft whose type is none of the four kinds is returned as an alert,
\* and the request succeeds.
C8_UnknownTypeBecomesAlert ==
    (response.op = "get_recommendations" /\ OPENAI_ENABLED
        /\ IsDraftList(ReqReply) /\ ~AttemptFailed(ReqReply))
    => \A i \in DOMAIN ReqItems :
          (ReqItems[i].type # None
              /\ Val(ReqItems[i].type) \notin RecommendationType)
          => /\ response.status = 200
             /\ i <= 5 => response.body[i].type = "alert"

-----------------------------------------------------------------------------
(* Goal lifecycle *)

\* C9: a goal that has once been abandoned never has status active again.
C9_AbandonedNeverResurrected ==
    \A i \in DOMAIN goals :
        goals[i].id \in abandoned_once => goals[i].status # Some("active")

-----------------------------------------------------------------------------
(* The impact analyzer against drawn goal tables                            *)

ImpactGoalSpace(id) ==
    { GoalRow(id, "spending_limit", "active", Dollars(185)),
      GoalRow(id, "spending_limit", "active", 0),
      GoalRow(id, "spending_limit", "paused", Dollars(185)),
      GoalRow(id, "savings", "active", 0),
      GoalRow(id, "debt_payoff", "active", 0),
      [GoalRow(id, "savings", "active", 0) EXCEPT !.priority = Some(5)],
      [GoalRow(id, "debt_payoff", "completed", 0) EXCEPT !.priority = None],
      [GoalRow(id, "spending_limit", "active", Dollars(185)) EXCEPT
          !.user_id = 2, !.priority = Some(3)] }

RECURSIVE ImpactTablesOfLen(_)
ImpactTablesOfLen(n) ==
    IF n = 0 THEN {<<>>}
    ELSE {Append(gs, g) : gs \in ImpactTablesOfLen(n - 1),
                          g \in ImpactGoalSpace(n)}

\* 114.996, 115, 150, 300 and 300.004 dollars, and the amounts at and just
\* above 5 % and 10 % of a target of 300 dollars.
ImpactAmountSpace ==
    ImpactAmounts \cup {Dollars(300), Dollars(300) + 4}
    \cup {Dollars(15), Dollars(15) + 1, Dollars(30), Dollars(30) + 1}

InitImpact ==
    /\ financial_profile = [u \in Users |-> EmptyProfile]
    /\ products = SeedCatalog
    /\ goals \in UNION {ImpactTablesOfLen(n) : n \in 0..MaxImpactGoals}
    /\ next_goal_id = Len(goals) + 1
    /\ OPENAI_ENABLED = FALSE
    /\ response = NoResponse
    /\ abandoned_once = {}
    /\ SeededSessions

\* One request per drawn table.
NextImpact ==
    /\ response = NoResponse
    /\ \E user \in Users, purchase_amount \in ImpactAmountSpace :
          analyze_purchase_impact(user, purchase_amount)

SpecImpact == InitImpact /\ [][NextImpact]_vars

\* The entries the last impact report holds for a goal.
EntriesFor(goal_id) ==
    {i \in DOMAIN response.body.affected_goals :
        response.body.affected_goals[i].goal_id = goal_id}

ActiveSpendingLimits ==
    {i \in DOMAIN goals :
        /\ goals[i].user_id = response.user
        /\ goals[i].type = "spending_limit"
        /\ goals[i].status = Some("active")}

ProjectedSpending(g) == Val(g.current_spending) + response.args.purchase_amount

IsRoundedTo2(x, v) == x % 10 = 0 /\ x - v <= 5 /\ v - x <= 5

ActiveOfType(type) ==
    {i \in DOMAIN goals :
        /\ goals[i].user_id = response.user
        /\ goals[i].type = type
        /\ goals[i].status = Some("active")}

\* The report's single entry for goal row i warns exactly when the purchase
\* is more than percent % of the goal's target.
WarnsAbove(i, percent) ==
    /\ Cardinality(EntriesFor(goals[i].id)) = 1
    /\ \A e \in EntriesFor(goals[i].id) :
          response.body.affected_goals[e].is_warning
             <=> response.args.purchase_amount * 100
                    > percent * goals[i].target_amount

ActiveOfMember ==
    {i \in DOMAIN goals :
        goals[i].user_id = response.user /\ goals[i].status = Some("active")}

\* The stored priority of the goal an entry of the report is about.
PriorityOfEntry(e) ==
    LET i == CHOOSE j \in DOMAIN goals :
                goals[j].id = response.body.affected_goals[e].goal_id
    IN  goals[i].priority

\* C12: the report has exactly one entry per active goal of the requesting
\* member, in descending priority order; warnings_count is the number of
\* entries with is_warning, and total_goals the number of entries.
C12_OneEntryPerActiveGoalInOrder ==
    (response.op = "analyze_purchase_impact" /\ response.status = 200)
    => LET entries == response.body.affected_goals IN
       /\ Len(entries) = Cardinality(ActiveOfMember)
       /\ \A i \in ActiveOfMember : Cardinality(EntriesFor(goals[i].id)) = 1
       /\ \A e \in DOMAIN entries, f \in DOMAIN entries :
             (e < f /\ PriorityOfEntry(e) # None /\ PriorityOfEntry(f) # None)
             => Val(PriorityOfEntry(e)) >= Val(PriorityOfEntry(f))
       /\ response.body.warnings_count
             = Cardinality({e \in DOMAIN entries : entries[e].is_warning})
       /\ response.body.total_goals = Len(entries)

\* Two active goals of the member, the later row with the higher priority:
\* it is reported first; one of the two entries is a warning; a goal of the
\* other member is not reported.
C12_Witness ==
    /\ response.op = "analyze_purchase_impact"
    /\ response.status = 200
    /\ Len(goals) = 2
    /\ goals[1].user_id = response.user
    /\ goals[1].status = Some("active")
    /\ goals[2].user_id = response.user
    /\ goals[2].status = Some("active")
    /\ goals[1].priority = Some(1)
    /\ goals[2].priority = Some(5)
    /\ response.body.affected_goals[1].goal_id = goals[2].id
    /\ response.body.affected_goals[2].goal_id = goals[1].id
    /\ response.body.total_goals = 2
    /\ response.body.warnings_count = 1

-----------------------------------------------------------------------------
(* The service: reads and the goals they see                                *)

ReadOps == {"analyze_purchase_impact", "get_recommendations"}

\* C13: an analyze_purchase_impact or get_recommendations request leaves
\* every stored goal, every product and every user as it was, and the same
\* request repeated gives the same outcome as before.
C13_ReadsLeaveStoreUnchanged ==
    [][response'.op \in ReadOps
        => /\ goals' = goals
           /\ products' = products
           /\ financial_profile' = financial_profile
           /\ (response.op = response'.op /\ response.user = response'.user
                  /\ response.args = response'.args)
              => (response'.status = response.status
                    /\ response'.body = response.body)]_vars

\* A purchase of 150 was analysed against a stored spending limit of 300:
\* the report projects it, the stored current_spending is still 0.
C13_Witness ==
    /\ response.op = "analyze_purchase_impact"
    /\ response.status = 200
    /\ response.args.purchase_amount = Dollars(150)
    /\ \E i \in ActiveSpendingLimits :
          /\ goals[i].current_spending = Some(0)
          /\ \E e \in EntriesFor(goals[i].id) :
                response.body.affected_goals[e].remaining = Dollars(150)

\* The stored row a goal id names.
RowOf(goal_id) == {i \in DOMAIN goals : goals[i].id = goal_id}

\* C14: a goal whose status is paused, completed or abandoned is in no
\* impact report (so is not counted in warnings_count) and produces no
\* spending-limit alert in a recommendation response.
C14_OnlyActiveGoalsEvaluated ==
    /\ (response.op = "analyze_purchase_impact" /\ response.status = 200)
       => /\ \A e \in DOMAIN response.body.affected_goals :
                \A i \in RowOf(response.body.affected_goals[e].goal_id) :
                    goals[i].status = Some("active")
          /\ response.body.warnings_count <= Cardinality(ActiveOfMember)
    /\ (response.op = "get_recommendations" /\ response.status = 200)
       => \A d \in DOMAIN response.body :
             (response.body[d].type = "alert"
                 /\ response.body[d].impact_goal_id # None)
             => \A i \in RowOf(Val(response.body[d].impact_goal_id)) :
                    goals[i].status = Some("active")

\* The member has a spending limit that was paused, completed or abandoned
\* and one that is active: the rules alert names the active one only.
C14_Witness ==
    /\ response.op = "get_recommendations"
    /\ response.status = 200
    /\ response.trace.rules_ran
    /\ \E i \in DOMAIN goals, j \in DOMAIN goals :
          /\ goals[i].user_id = response.user
          /\ goals[j].user_id = response.user
          /\ goals[i].type = "spending_limit"
          /\ goals[j].type = "spending_limit"
          /\ goals[i].status \in {Some("paused"), Some("completed"),
                                  Some("abandoned")}
          /\ goals[j].status = Some("active")
          /\ Cardinality({d \in DOMAIN response.body :
                             response.body[d].type = "alert"}) = 1
          /\ \E d \in DOMAIN response.body :
                response.body[d].impact_goal_id = Some(goals[j].id)

-----------------------------------------------------------------------------
(* The goal store against request bodies of every kind                      *)

\* Targets of POST /goals: -1, 0 and 300 dollars.
StoreCreateTargets == {0 - Dollars(1), 0, Dollars(300)}

\* Bodies of PUT /goals/{goal_id}: target_amount null, 0 and 100 dollars,
\* status paused.
StoreUpdates ==
    {GoalUpdate(SetTo(target), Unset, Unset, Unset, Unset) :
        target \in {None, Some(0), Some(Dollars(100))}}
    \cup {GoalUpdate(Unset, Unset, Unset, SetTo(Some("paused")), Unset)}

InitStore ==
    /\ financial_profile = [u \in Users |-> EmptyProfile]
    /\ products = SeedCatalog
    /\ goals = <<>>
    /\ next_goal_id = 1
    /\ OPENAI_ENABLED = FALSE
    /\ response = NoResponse
    /\ abandoned_once = {}
    /\ SeededSessions

PostGoal ==
    \E user \in Users, target_amount \in StoreCreateTargets :
        post_goal(user, "spending_limit", target_amount, None, None)

PutGoal ==
    \E user \in Users, goal_id \in 1..MaxGoals, update_data \in StoreUpdates :
        put_goal(user, goal_id, update_data)

NextStore ==
    \/ PostGoal
    \/ PutGoal
    \/ AnalyzePurchaseImpact
    \/ \E user \in Users : get_recommendations(user, Dollars(600), ReplyRaise)

SpecStore == InitStore /\ [][NextStore]_vars

\* C15: every stored active goal has target_amount > 0, and neither the
\* impact analyzer nor the recommendation generator divides by a zero target.
C15_ActiveTargetPositive ==
    /\ \A i \in DOMAIN goals :
          goals[i].status = Some("active") => goals[i].target_amount > 0
    /\ response.error # "ZeroDivisionError"

\* A goal whose target was changed to 100, and that was then sent a null
\* target, which was not stored.
C15_Witness ==
    /\ response.op = "update_goal"
    /\ response.error = "IntegrityError"
    /\ \E i \in GoalIndex(response.args.goal_id, response.user) :
          /\ goals[i].status = Some("active")
          /\ goals[i].target_amount = Dollars(100)

-----------------------------------------------------------------------------
(* calculate_goal_metrics against drawn goal rows                           *)

\* Current values of 0, 1.50, 3 and 4 dollars, or NULL.
MetricCurrentSpace == OptionalOf({0, 1500, Dollars(3), Dollars(4)})

\* Rows with a target of -1, 0, 0.001 or 3 dollars; the column has no check
\* constraint, so rows written past the request schemas can hold any target.
MetricGoalSpace ==
    {[Goal(1, 1, type, target, current_amount, Some(1)) EXCEPT
         !.current_spending = current_spending] :
        type \in GoalType,
        target \in {0 - Dollars(1), 0, 1, Dollars(3)},
        current_amount \in MetricCurrentSpace,
        current_spending \in MetricCurrentSpace}

InitMetrics ==
    /\ financial_profile = [u \in Users |-> EmptyProfile]
    /\ products = SeedCatalog
    /\ \E g \in MetricGoalSpace : goals = <<g>>
    /\ next_goal_id = 2
    /\ OPENAI_ENABLED = FALSE
    /\ response = NoResponse
    /\ abandoned_once = {}
    /\ SeededSessions

metrics_call ==
    LET metrics == calculate_goal_metrics(goals[1]) IN
    /\ response' = Response("calculate_goal_metrics", goals[1].user_id,
                            [goal_id |-> goals[1].id],
                            IF metrics.raised THEN 500 ELSE 200,
                            metrics.error, metrics.value, NoTrace)
    /\ UNCHANGED <<financial_profile, products, goals, next_goal_id,
                   OPENAI_ENABLED, abandoned_once, session_vars>>

\* One call per drawn row.
NextMetrics == response = NoResponse /\ metrics_call

SpecMetrics == InitMetrics /\ [][NextMetrics]_vars

\* The current value progress is measured on.
MeasuredValue(goal) ==
    IF goal.type = "spending_limit" THEN goal.current_spending
    ELSE goal.current_amount

\* The ratio p is min(x / target * 100, 100), for target > 0.
IsCappedPercent(p, x, target) ==
    /\ x <= target => p.num * target = x * 100 * p.den
    /\ x >= target => p.num = 100 * p.den

\* C16: progress_percentage is min(current_spending / target_amount * 100,
\* 100) for a spending_limit goal and min(current_amount / target_amount *
\* 100, 100) for the other types; it is within [0, 100] for a non-negative
\* current value, and is 0 whenever target_amount <= 0.
C16_ProgressPercentage ==
    (response.op = "calculate_goal_metrics" /\ MeasuredValue(goals[1]) # None)
    => LET goal == goals[1]
           x == Val(MeasuredValue(goal))
           p == response.body
       IN  /\ response.status = 200
           /\ p.den > 0
           /\ goal.target_amount <= 0 => p.num = 0
           /\ goal.target_amount > 0 => IsCappedPercent(p, x, goal.target_amount)
           /\ x >= 0 => (0 <= p.num /\ p.num <= 100 * p.den)

\* A spending limit of 3 dollars with 4 spent and nothing saved: progress
\* is capped at 100.
C16_Witness ==
    /\ response.op = "calculate_goal_metrics"
    /\ response.status = 200
    /\ goals[1].type = "spending_limit"
    /\ goals[1].target_amount = Dollars(3)
    /\ goals[1].current_spending = Some(Dollars(4))
    /\ goals[1].current_amount = Some(0)
    /\ response.body = Ratio(100, 1)

-----------------------------------------------------------------------------
(* The four rules of the generator, under SpecRules                         *)

RulesReturned ==
    response.op = "generate_rules_based_recommendations" /\ response.status = 200

\* The drafts of one type in the generator's output.
DraftsOfType(type) ==
    {d \in DOMAIN response.body : response.body[d].type = type}

\* The alert drafts of the output that carry the id of goal row i.
AlertsFor(i) ==
    {d \in DraftsOfType("alert") :
        response.body[d].impact_goal_id = Some(goals[i].id)}

\* When each of rules 2, 3 and 4 is due for the call's amount.
CashbackDue ==
    Dollars(50) < response.args.amount /\ response.args.amount < Dollars(500)
CardDue ==
    /\ Dollars(500) <= response.args.amount
    /\ response.args.amount <= Dollars(5000)
    /\ \E i \in DOMAIN products : products[i].type = "credit_card"
LoanDue ==
    /\ response.args.amount > Dollars(5000)
    /\ \E i \in DOMAIN products : products[i].type = "loan"

\* The number of drafts the four rules emit before the cut to five.
EmittedInTotal ==
    Cardinality(Breached(response.args.amount))
    + (IF CashbackDue THEN 1 ELSE 0) + (IF CardDue THEN 1 ELSE 0)
    + (IF LoanDue THEN 1 ELSE 0)

FewerThanFiveAlerts == Cardinality(Breached(response.args.amount)) < 5

\* The first product of a type, in eligible-product order.
FirstOfType(type) ==
    products[CHOOSE i \in DOMAIN products :
                /\ products[i].type = type
                /\ \A j \in 1..(i - 1) : products[j].type # type]

\* C17: an alert draft is in the output only for an active spending_limit
\* goal with current_spending + amount > target_amount, with priority 1 and
\* that goal's id; when at most 5 drafts are emitted in total, every such
\* goal has exactly one alert draft.
C17_AlertIffBreached ==
    RulesReturned
    => /\ \A d \in DraftsOfType("alert") :
             /\ response.body[d].priority = 1
             /\ \E i \in Breached(response.args.amount) : d \in AlertsFor(i)
       /\ EmittedInTotal <= 5
             => \A i \in Breached(response.args.amount) :
                   Cardinality(AlertsFor(i)) = 1

\* A purchase of 150 with an active limit that it breaches, a paused limit
\* and a savings goal: one alert, for the active limit.
C17_Witness ==
    /\ RulesReturned
    /\ response.args.amount = Dollars(150)
    /\ Cardinality(Breached(response.args.amount)) = 1
    /\ \E i \in DOMAIN goals :
          goals[i].type = "spending_limit" /\ goals[i].status = Some("paused")
    /\ \E i \in DOMAIN goals : goals[i].type = "savings"
    /\ Cardinality(DraftsOfType("alert")) = 1
    /\ \A i \in Breached(response.args.amount) : Cardinality(AlertsFor(i)) = 1

\* C18: with 500 <= amount <= 5000, an eligible credit_card and fewer than
\* 5 alerts, the output has exactly one credit_card draft, of priority 2, for
\* the first eligible credit_card; outside the range or without an eligible
\* credit_card it has none.
C18_CreditCardOffer ==
    response.op = "generate_rules_based_recommendations"
    => /\ (CardDue /\ FewerThanFiveAlerts)
             => /\ response.status = 200
                /\ Cardinality(DraftsOfType("credit_card")) = 1
                /\ \A d \in DraftsOfType("credit_card") :
                      /\ response.body[d].priority = 2
                      /\ response.body[d].product
                            = Some(FirstOfType("credit_card").id)
       /\ (~CardDue /\ response.status = 200)
             => DraftsOfType("credit_card") = {}

\* A purchase of 600, one eligible credit card and no goal: the output is
\* the one credit_card draft.
C18_Witness ==
    /\ RulesReturned
    /\ response.args.amount = Dollars(600)
    /\ products = <<SeedCatalog[1]>>
    /\ goals = <<>>
    /\ Len(response.body) = 1
    /\ response.body[1].type = "credit_card"
    /\ response.body[1].product = Some(SeedCatalog[1].id)

\* C19: with 50 < amount < 500 and fewer than 5 alerts, the output has
\* exactly one cashback draft, of priority 3 and cashback_amount = amount *
\* 0.02, and with no breached goal it is the only draft; with amount <= 50
\* or amount >= 500 it has none.
C19_CashbackOffer ==
    response.op = "generate_rules_based_recommendations"
    => /\ (CashbackDue /\ FewerThanFiveAlerts)
             => /\ response.status = 200
                /\ Cardinality(DraftsOfType("cashback")) = 1
                /\ \A d \in DraftsOfType("cashback") :
                      /\ response.body[d].priority = 3
                      /\ response.body[d].cashback_amount # None
                      /\ Val(response.body[d].cashback_amount) * 50
                            = response.args.amount * 100
                /\ Breached(response.args.amount) = {}
                      => Len(response.body) = 1
       /\ (~CashbackDue /\ response.status = 200)
             => DraftsOfType("cashback") = {}

\* A purchase of 75 with no goal: a single cashback draft of 1.50.
C19_Witness ==
    /\ RulesReturned
    /\ response.args.amount = Dollars(75)
    /\ goals = <<>>
    /\ Len(response.body) = 1
    /\ response.body[1].type = "cashback"
    /\ response.body[1].cashback_amount = Some(150 * Dollars(1))

\* C20: with amount > 5000, an eligible loan and fewer than 5 alerts, the
\* output has exactly one loan draft, of priority 2, for the first eligible
\* loan; with amount <= 5000 or without an eligible loan it has none.
C20_LoanOffer ==
    response.op = "generate_rules_based_recommendations"
    => /\ (LoanDue /\ FewerThanFiveAlerts)
             => /\ response.status = 200
                /\ Cardinality(DraftsOfType("loan")) = 1
                /\ \A d \in DraftsOfType("loan") :
                      /\ response.body[d].priority = 2
                      /\ response.body[d].product = Some(FirstOfType("loan").id)
       /\ (~LoanDue /\ response.status = 200)
             => DraftsOfType("loan") = {}

\* The breached goals in the order they were supplied.
BreachedInOrder ==
    SelectSeq(goals,
              LAMBDA g : /\ g.type = "spending_limit"
                         /\ g.status = Some("active")
                         /\ g.current_spending # None
                         /\ Val(g.current_spending) + response.args.amount
                               > g.target_amount)

\* All alerts in goal order, then the credit_card or loan draft, then the
\* cashback draft.
ExpectedRanking ==
    [i \in 1..Len(BreachedInOrder) |->
        Draft("alert", 1, None, Some(BreachedInOrder[i].id), FALSE, None)]
    \o (IF CardDue
        THEN <<Draft("credit_card", 2, Some(FirstOfType("credit_card").id),
                     None, FALSE, None)>>
        ELSE <<>>)
    \o (IF LoanDue
        THEN <<Draft("loan", 2, Some(FirstOfType("loan").id), None, TRUE, None)>>
        ELSE <<>>)
    \o (IF CashbackDue
        THEN <<Draft("cashback", 3, None, None, FALSE,
                     Some(2 * response.args.amount))>>
        ELSE <<>>)

\* C21: the output is the first 5 elements of: all alert drafts in the order
\* their goals were supplied, then the credit_card or loan draft if any, then
\* the cashback draft if any; it is determined by the inputs alone.
C21_StableRankingThenTruncation ==
    RulesReturned
    => response.body = SubSeq(ExpectedRanking, 1,
                              IF Len(ExpectedRanking) < 5
                              THEN Len(ExpectedRanking) ELSE 5)

\* Two breached limits and a purchase of 150: the two alerts in goal order,
\* then the cashback draft.
C21_Witness ==
    /\ RulesReturned
    /\ response.args.amount = Dollars(150)
    /\ Len(goals) = 2
    /\ Len(BreachedInOrder) = 2
    /\ Len(response.body) = 3
    /\ response.body[1].impact_goal_id = Some(goals[1].id)
    /\ response.body[2].impact_goal_id = Some(goals[2].id)
    /\ response.body[3].type = "cashback"

-----------------------------------------------------------------------------
(* The components against empty collections                                 *)

\* Goal tables in which member 1 has no active goal.
EmptyStores ==
    { <<>>,
      <<GoalRow(1, "spending_limit", "paused", Dollars(185))>>,
      <<[GoalRow(1, "spending_limit", "active", Dollars(185)) EXCEPT
            !.user_id = 2]>> }

\* Catalogs: no row, one inactive row, and the premium card alone.
EmptyCatalogs ==
    { <<>>,
      <<Product(1, "loan", Some(799), None, None, None, FALSE)>>,
      <<SeedCatalog[2]>> }

InitEmpty ==
    /\ \E profile \in {SarahProfile, EmptyProfile} :
          financial_profile = [u \in Users |-> IF u = 1 THEN profile
                                                ELSE EmptyProfile]
    /\ products \in EmptyCatalogs
    /\ goals \in EmptyStores
    /\ next_goal_id = Len(goals) + 1
    /\ OPENAI_ENABLED = FALSE
    /\ response = NoResponse
    /\ abandoned_once = {}
    /\ SeededSessions

\* One request per drawn store.
NextEmpty ==
    /\ response = NoResponse
    /\ \/ AnalyzePurchaseImpact
       \/ \E user \in Users : eligibility_query(user)
       \/ \E user \in Users, amount \in OrchAmounts :
             get_recommendations(user, amount, ReplyRaise)

SpecEmpty == InitEmpty /\ [][NextEmpty]_vars

\* No row of the catalog is offered to the requesting member.
NothingEligible ==
    \A i \in DOMAIN products :
        ~(products[i].is_active
            /\ MeetsAllThresholds(financial_profile[response.user], products[i]))

\* C22: with no active goal the impact report is empty with both counts 0;
\* with an empty catalog or no eligible product the eligibility filter
\* returns an empty list; with neither goals nor eligible products the rules
\* generator returns an empty list, or the cashback draft alone when
\* 50 < amount < 500. None of them raises.
C22_EmptyCollectionsAreNoErrors ==
    /\ (response.op = "analyze_purchase_impact" /\ ActiveOfMember = {})
       => /\ response.status = 200
          /\ response.body.affected_goals = <<>>
          /\ response.body.total_goals = 0
          /\ response.body.warnings_count = 0
    /\ (response.op = "get_eligible_products" /\ NothingEligible)
       => (response.status = 200 /\ response.body = <<>>)
    /\ (response.op = "get_recommendations" /\ ActiveOfMember = {}
          /\ NothingEligible)
       => /\ response.status = 200
          /\ Len(response.body) = (IF CashbackDue THEN 1 ELSE 0)
          /\ \A d \in DOMAIN response.body : response.body[d].type = "cashback"

\* A purchase of 6000 by a member with no goal, against an empty catalog:
\* an empty list of recommendations.
C22_Witness ==
    /\ response.op = "get_recommendations"
    /\ response.status = 200
    /\ response.args.amount = Dollars(6000)
    /\ goals = <<>>
    /\ products = <<>>
    /\ response.body = <<>>


-----------------------------------------------------------------------------
(* At most one offer per purchase                                           *)

\* The positions of the offers (cashback, credit_card, loan) in the output.
Offers ==
    DraftsOfType("cashback") \cup DraftsOfType("credit_card")
        \cup DraftsOfType("loan")

\* C30: the ranges of rules 2, 3 and 4 do not meet, so the output holds at
\* most one draft of type cashback, credit_card or loan, and every other
\* draft of the output is an alert of priority 1.
C30_AtMostOneOffer ==
    RulesReturned
    => /\ ~(CashbackDue /\ CardDue) /\ ~(CardDue /\ LoanDue)
       /\ ~(CashbackDue /\ LoanDue)
       /\ Cardinality(Offers) <= 1
       /\ \A d \in DOMAIN response.body :
             d \notin Offers
             => response.body[d].type = "alert" /\ response.body[d].priority = 1

\* A purchase of exactly 5000 against a catalog with a card and a loan, and
\* one breached limit: the alert and the card draft, no loan draft.
C30_Witness ==
    /\ RulesReturned
    /\ response.args.amount = Dollars(5000)
    /\ \E i \in DOMAIN products : products[i].type = "loan"
    /\ \E i \in DOMAIN products : products[i].type = "credit_card"
    /\ Cardinality(Breached(response.args.amount)) = 1
    /\ Len(response.body) = 2
    /\ Cardinality(Offers) = 1
    /\ DraftsOfType("credit_card") # {}


-----------------------------------------------------------------------------
(* Goals of two owners                                                      *)

\* Goal tables with one spending limit per user; a purchase of 150 breaches
\* the limit of 100 and not the limit of 300.
OwnerStores ==
    { <<Goal(1, 1, "spending_limit", Dollars(300), Some(0), Some(1)),
        Goal(2, 2, "spending_limit", Dollars(100), Some(0), Some(2))>>,
      <<Goal(1, 2, "spending_limit", Dollars(100), Some(0), Some(1)),
        Goal(2, 1, "savings", Dollars(300), Some(0), Some(1))>> }

\* Status filters of GET /goals: absent, a status, and a word that is none.
StatusFilters == {None, Some("active"), Some("done")}

InitOwner ==
    /\ financial_profile = [u \in Users |-> IF u = 1 THEN SarahProfile
                                           ELSE EmptyProfile]
    /\ products = SeedCatalog
    /\ goals \in OwnerStores
    /\ next_goal_id = Len(goals) + 1
    /\ OPENAI_ENABLED = FALSE
    /\ response = NoResponse
    /\ abandoned_once = {}
    /\ SeededSessions

GetGoal ==
    \E user \in Users, goal_id \in 1..MaxGoals : get_goal(user, goal_id)

GetGoals ==
    \E user \in Users, status_filter \in StatusFilters :
        get_goals(user, status_filter)

RulesRecommendationsRequest ==
    \E user \in Users : get_recommendations(user, Dollars(150), ReplyRaise)

NextOwner ==
    \/ GetGoal
    \/ GetGoals
    \/ UpdateGoal
    \/ DeleteGoal
    \/ AnalyzePurchaseImpact
    \/ RulesRecommendationsRequest

SpecOwner == InitOwner /\ [][NextOwner]_vars

\* The stored rows with the id a request names that belong to someone else.
ForeignRows(goal_id, user) ==
    {i \in DOMAIN goals : goals[i].id = goal_id /\ goals[i].user_id # user}

\* Every goal the last response reports belongs to the requesting user.
ReportsOwnGoalsOnly ==
    /\ (response.op = "get_goals" /\ response.status = 200)
       => \A i \in DOMAIN response.body.goals :
             response.body.goals[i].user_id = response.user
    /\ (response.op = "analyze_purchase_impact" /\ response.status = 200)
       => /\ \A e \in DOMAIN response.body.affected_goals :
                \A i \in RowOf(response.body.affected_goals[e].goal_id) :
                    goals[i].user_id = response.user
          /\ response.body.total_goals = Cardinality(ActiveOfMember)
    /\ (response.op = "get_recommendations" /\ response.status = 200)
       => \A d \in DOMAIN response.body :
             response.body[d].impact_goal_id # None
             => \A i \in RowOf(Val(response.body[d].impact_goal_id)) :
                    goals[i].user_id = response.user

\* C28: get_goal, update_goal and delete_goal with the id of a goal owned by
\* another user answer 404 and leave every stored goal as it was; get_goals,
\* analyze_purchase_impact and get_recommendations report no goal of
\* another user.
C28_GoalsIsolatedPerOwner ==
    [][/\ (response'.op \in {"get_goal", "update_goal", "delete_goal"}
             /\ ForeignRows(response'.args.goal_id, response'.user) # {})
          => (response'.status = 404 /\ goals' = goals)
       /\ ReportsOwnGoalsOnly']_vars

\* User 1 asked to delete goal 2, which user 2 owns: 404, and the goal is
\* still stored.
C28_Witness ==
    /\ response.op = "delete_goal"
    /\ response.user = 1
    /\ response.args.goal_id = 2
    /\ response.status = 404
    /\ \E i \in DOMAIN goals : goals[i].id = 2 /\ goals[i].user_id = 2


-----------------------------------------------------------------------------
(* The completion timestamp of a goal                                       *)

\* Status updates, a null status among them.
LifecycleUpdates ==
    {GoalUpdate(Unset, Unset, Unset, SetTo(st), Unset) :
        st \in {Some("completed"), Some("active"), Some("abandoned"), None}}

InitLifecycle ==
    /\ financial_profile = [u \in Users |-> EmptyProfile]
    /\ products = SeedCatalog
    /\ goals = <<>>
    /\ next_goal_id = 1
    /\ OPENAI_ENABLED = FALSE
    /\ response = NoResponse
    /\ abandoned_once = {}
    /\ SeededSessions

LifecycleCreate == post_goal(1, "savings", Dollars(300), None, None)

LifecycleUpdate ==
    \E user \in Users, goal_id \in 1..MaxGoals, update_data \in LifecycleUpdates :
        put_goal(user, goal_id, update_data)

NextLifecycle ==
    \/ LifecycleCreate
    \/ LifecycleUpdate
    \/ TickSecond

SpecLifecycle == InitLifecycle /\ [][NextLifecycle]_vars

\* C29: every stored goal whose status is completed has completed_at set,
\* and a completed_at that is set is the same after every later request.
C29_CompletedAtSetOnceAndKept ==
    [][/\ \A i \in DOMAIN goals' :
             goals'[i].status = Some("completed")
             => goals'[i].completed_at # None
       /\ \A i \in DOMAIN goals, j \in DOMAIN goals' :
             (goals[i].id = goals'[j].id /\ goals[i].completed_at # None)
             => goals'[j].completed_at = goals[i].completed_at]_vars

\* A goal completed in second 1, abandoned, and completed again in second 2
\* still carries the stamp of second 1.
C29_Witness ==
    /\ now = 2
    /\ response.op = "update_goal"
    /\ response.status = 200
    /\ response.body[1].status = Some("completed")
    /\ response.body[1].completed_at = Some(1)
    /\ response.body[1].id \in abandoned_once
    /\ \E i \in DOMAIN goals : goals[i] = response.body[1]


-----------------------------------------------------------------------------
(* Sessions: login, refresh, logout, account deletion                       *)

InitAuth ==
    /\ financial_profile = [u \in Users |-> IF u = 1 THEN EmptyProfile
                                           ELSE SarahProfile]
    /\ products = SeedCatalog
    /\ goals = <<Goal(1, 1, "savings", Dollars(300), Some(0), Some(1))>>
    /\ next_goal_id = 2
    /\ OPENAI_ENABLED = FALSE
    /\ response = NoResponse
    /\ abandoned_once = {}
    /\ SeededSessions

\* Strings a client can present to POST /auth/refresh: every refresh token
\* ever issued, an access token, and a string that is no token.
PresentableTokens ==
    {refresh_tokens[i].token : i \in DOMAIN refresh_tokens}
        \cup {create_access_token(1), NotAJwt}

\* Bodies of PUT /users/me.
UserUpdates == {[financial_profile |-> SetTo(SarahProfile)]}

Login == \E user \in Users, password_matches \in BOOLEAN :
            login(user, password_matches)

Refresh == \E token \in PresentableTokens : refresh_token(token)

Logout == \E user \in Users : logout(user)

DeleteMyAccount == \E user \in Users : delete_my_account(user)

UpdateMyProfile ==
    \E user \in Users, user_update \in UserUpdates :
        update_my_profile(user, user_update)

TrackRecommendationEvent == \E user \in Users : track_recommendation_event(user)

NextAuth ==
    \/ Login
    \/ Refresh
    \/ Logout
    \/ DeleteMyAccount
    \/ UpdateMyProfile
    \/ TrackRecommendationEvent
    \/ TickSecond
    \/ TickLifetime

SpecAuth == InitAuth /\ [][NextAuth]_vars

\* The requests that write refresh_tokens, and the clock.
SessionLogin == \E user \in Users : login(user, TRUE)

NextSession ==
    \/ SessionLogin
    \/ Refresh
    \/ Logout
    \/ TickSecond
    \/ TickLifetime

SpecSession == InitAuth /\ [][NextSession]_vars


\* The rows of a user's refresh tokens.
TokensOf(user) ==
    {i \in DOMAIN refresh_tokens : refresh_tokens[i].user_id = user}

\* The user has refresh tokens and every one of them is revoked: the state
\* a logout leaves, until the next login.
LoggedOut(user) ==
    /\ TokensOf(user) # {}
    /\ \A i \in TokensOf(user) : refresh_tokens[i].revoked

\* C24: logout leaves every refresh token of the current user revoked and
\* every row of another user as it was; POST /auth/refresh with a token of
\* a logged-out user answers 401.
C24_LogoutRevokesOwnTokensOnly ==
    [][/\ response'.op = "logout"
          => /\ DOMAIN refresh_tokens' = DOMAIN refresh_tokens
             /\ \A i \in DOMAIN refresh_tokens :
                   IF refresh_tokens[i].user_id = response'.user
                   THEN refresh_tokens'[i].revoked
                   ELSE refresh_tokens'[i] = refresh_tokens[i]
       /\ (response'.op = "refresh_token" /\ response' # response
             /\ LoggedOut(response'.args.refresh_token.sub))
          => (response'.status = 401 /\ refresh_tokens' = refresh_tokens)]_vars

\* User 1 logged out and then presented a refresh token of theirs that had
\* not expired: 401, while the token of user 2 is still not revoked.
C24_Witness ==
    /\ response.op = "refresh_token"
    /\ response.status = 401
    /\ response.args.refresh_token.type = "refresh"
    /\ response.args.refresh_token.sub = 1
    /\ response.args.refresh_token.exp >= now
    /\ LoggedOut(1)
    /\ \E i \in TokensOf(2) : ~refresh_tokens[i].revoked

\* The rows that hold the string a refresh request presented.
RowsOfToken(token) ==
    {i \in DOMAIN refresh_tokens : refresh_tokens[i].token = token}

\* C27: a refresh token is accepted once: the request that accepts it marks
\* its row revoked and stores the new token as a fresh row, a request that
\* presents a revoked token is answered 401, and no step turns revoked
\* from true to false.
C27_SingleUseMonotonicRevocation ==
    [][/\ \A i \in DOMAIN refresh_tokens :
             /\ i \in DOMAIN refresh_tokens'
             /\ refresh_tokens[i].revoked => refresh_tokens'[i].revoked
       /\ (response'.op = "refresh_token" /\ response' # response)
          => LET presented == RowsOfToken(response'.args.refresh_token) IN
             /\ response'.status = 200
                => /\ \E i \in presented :
                         /\ ~refresh_tokens[i].revoked
                         /\ refresh_tokens'[i].revoked
                   /\ Len(refresh_tokens') = Len(refresh_tokens) + 1
                   /\ LET new == refresh_tokens'[Len(refresh_tokens')] IN
                      /\ new.user_id = response'.user
                      /\ new.token = response'.body.refresh_token
                      /\ new.token # response'.args.refresh_token
                      /\ ~new.revoked
             /\ (\E i \in presented : refresh_tokens[i].revoked)
                => response'.status = 401]_vars

\* A refresh was accepted: the presented token's row is revoked and the
\* last row holds the token the response returned.
C27_Witness ==
    /\ response.op = "refresh_token"
    /\ response.status = 200
    /\ \E i \in RowsOfToken(response.args.refresh_token) :
          refresh_tokens[i].revoked
    /\ refresh_tokens[Len(refresh_tokens)].token = response.body.refresh_token
    /\ ~refresh_tokens[Len(refresh_tokens)].revoked

\* The rows of any table that belong to a user.
RowsOwnedBy(table, user) == {i \in DOMAIN table : table[i].user_id = user}

\* C25: after delete_my_account the user's goals, refresh tokens and
\* analytics events are gone, the account stays inactive, and no login or
\* refresh hands the user new tokens.
C25_DeletionIsCompleteAndFinal ==
    \A user \in Users :
        ~users_is_active[user]
        => /\ RowsOwnedBy(goals, user) = {}
           /\ RowsOwnedBy(refresh_tokens, user) = {}
           /\ RowsOwnedBy(analytics_events, user) = {}
           /\ (response.user = user /\ response.op \in {"login", "refresh_token"})
              => response.status # 200


-----------------------------------------------------------------------------
(* Two refresh requests at once                                             *)

RaceLogin == login(1, TRUE)

RefreshSelect ==
    \E r \in Requests, token \in PresentableTokens : refresh_select(r, token)

RefreshCommit == \E r \in Requests : refresh_commit(r)

RaceTick == SecondPasses(MaxRaceSeconds)

NextRace ==
    \/ RaceLogin
    \/ RefreshSelect
    \/ RefreshCommit
    \/ RaceTick

SpecRace == InitAuth /\ [][NextRace]_vars

\* The requests that were answered 200 for a presented token.
AcceptedFor(token) ==
    {r \in Requests :
        /\ in_flight[r].pc = "returned"
        /\ in_flight[r].token = token
        /\ in_flight[r].status = 200}

\* C26: of the refresh requests that present the same token, at most one is
\* answered 200.
C26_AtMostOneRefreshSucceeds ==
    \A token \in PresentableTokens : Cardinality(AcceptedFor(token)) <= 1


-----------------------------------------------------------------------------
(* The generation call as a process                                         *)

InitAi ==
    /\ financial_profile = [u \in Users |-> IF u = 1 THEN SarahProfile
                                           ELSE EmptyProfile]
    /\ products = SeedCatalog
    /\ goals \in OwnerStores
    /\ next_goal_id = Len(goals) + 1
    /\ OPENAI_ENABLED \in BOOLEAN
    /\ response = NoResponse
    /\ abandoned_once = {}
    /\ SeededSessions

\* Contents the service answers with.
AnsweredReplies == (ServiceReplies \ {ReplyRaise}) \cup {ReplyNotJson}

AiRequest ==
    \E user \in Users, amount \in {Dollars(150), Dollars(600)} :
        ai_request(user, amount)

AiAnswers == \E reply \in AnsweredReplies : ai_answers(reply)

AiAttemptFails ==
    \E failure \in RetriedFailures \cup RaisedFailures :
        ai_attempt_fails(failure)

\* Without an API key the handler never reaches the client.
RequestWithoutClient == ~OPENAI_ENABLED /\ RulesRecommendationsRequest

NextAi ==
    \/ AiRequest
    \/ AiAnswers
    \/ AiAttemptFails
    \/ RequestWithoutClient

SpecAi == InitAi /\ [][NextAi]_vars

\* C23: a recommendation request sends the generation call once and waits
\* for it no longer than one timeout; after a failed attempt the request
\* has returned the rules result, with no second attempt.
C23_SingleBoundedAttempt ==
    ai_call.pc # "idle"
    => /\ ai_call.attempts <= 1
       /\ ai_call.waited <= DEFAULT_TIMEOUT
       /\ ai_call.failures >= 1
          => /\ ai_call.pc = "returned"
             /\ response.trace.rules_ran

====
